---- MODULE Spec2Model ----
(***************************************************************************)
(* PPG signal-processing core of anaemia_detection-master:                 *)
(*   max30100.py  HeartRateMonitor (buffers, presence, BPM, SpO2)          *)
(*   api.py       read_sensor (warm-up / measuring session, trimmed mean)  *)
(*                analyze (request threads of the Flask server)            *)
(*   sensor_wrapper.py  read_sensor_data (session without warm-up)         *)
(*                                                                         *)
(* Units.  Time is counted in centiseconds (0.01 s), so 0.4 s = 40,        *)
(* 2.0 s = 200, sleep(0.05) = 5, warmup = 300, duration = 1000.            *)
(* Python floats (self.bpm, self.spo2, every returned number) are kept in  *)
(* fixed point with Milli units per 1.0, rounded towards zero after each   *)
(* arithmetic step; int(x) is truncation to a multiple of Milli.           *)
(* Comparisons that the code makes between floats (thresholds, ranges,     *)
(* guards against zero) are evaluated exactly on integers.                 *)
(***************************************************************************)
EXTENDS Integers, Sequences, FiniteSets, TLC

VARIABLES
    buffer_size,   \* HeartRateMonitor: deque maxlen
    ir_buffer,     \* HeartRateMonitor.ir_buffer
    red_buffer,    \* HeartRateMonitor.red_buffer
    timestamps,    \* HeartRateMonitor.timestamps
    bpm,           \* HeartRateMonitor.bpm   (fixed point, Milli)
    spo2,          \* HeartRateMonitor.spo2  (fixed point, Milli)
    now,           \* wall clock time.time(), centiseconds
    wave,          \* the optical signal under the sensor (environment)
    period,        \* harness: time between two samples; session: read latency
    ret,           \* last monitor call: [op, val, path]
    pushed,        \* history of every (ir, red, t) passed to add_sample
    called,        \* harness: estimators already called since the last push
    pc,            \* read_sensor: control point
    start_time,    \* read_sensor: start_time
    sample,        \* read_sensor: the (ir, red) just read
    loop_elapsed,  \* read_sensor: time.time() - start_time at the while test
    gate_elapsed,  \* read_sensor: time.time() - start_time at the warm-up test
    iter,          \* read_sensor: number of loop iterations started
    nread,         \* read_sensor: successful read_fifo calls so far
    cur_bpm,       \* read_sensor: local bpm
    cur_spo2,      \* read_sensor: local spo2
    bpm_samples,   \* read_sensor: bpm_samples
    spo2_samples,  \* read_sensor: spo2_samples
    sensor_open,   \* the MAX30100 bus handle is open
    result,        \* read_sensor / read_sensor_data: returned dict
    configured,    \* MAX30100.setup() has written the device registers
    finger_detected_time, \* read_sensor_data: ticks with a finger detected
    stable_readings,      \* read_sensor_data: list of {'bpm', 'spo2'}
    session_no,    \* number of the running session of this process
    first_run,     \* candidates and result of the first session
    thread_pc,     \* analyze: control point of each request thread
    thread_reads,  \* analyze: read_fifo calls made by each request thread
    bus_log,       \* the request threads in the order they read the FIFO
    camera_available, \* api.py: CAMERA_AVAILABLE
    picam2,        \* api.py: the global picam2 (None or a Picamera2 object)
    camera,        \* the state of the camera device behind picam2
    camera_lock,   \* api.py: camera_lock, the thread holding it (0: free)
    is_streaming,  \* api.py: the global is_streaming
    cam_thread,    \* camera routes: handler and control point of each thread
    captured       \* the latest picam2.capture_array() call

monitor_vars == <<buffer_size, ir_buffer, red_buffer, timestamps, bpm, spo2>>
camera_vars == <<camera_available, picam2, camera, camera_lock, is_streaming,
                 cam_thread, captured>>
server_vars == <<thread_pc, thread_reads, bus_log, camera_vars>>
repeat_vars == <<session_no, first_run>>
session_vars == <<pc, start_time, sample, loop_elapsed, gate_elapsed, iter,
                  nread, cur_bpm, cur_spo2, bpm_samples, spo2_samples,
                  sensor_open, result, configured, finger_detected_time,
                  stable_readings, server_vars, repeat_vars>>
vars == <<buffer_size, ir_buffer, red_buffer, timestamps, bpm, spo2, now,
          wave, period, ret, pushed, called, pc, start_time, sample,
          loop_elapsed, gate_elapsed, iter, nread, cur_bpm, cur_spo2,
          bpm_samples, spo2_samples, sensor_open, result, configured,
          finger_detected_time, stable_readings, session_no, first_run,
          thread_pc, thread_reads, bus_log, camera_available, picam2,
          camera, camera_lock, is_streaming, cam_thread, captured>>

(***************************************************************************)
(* Bounds of the model                                                     *)
(***************************************************************************)
SmallBuffer == 31    \* harness: HeartRateMonitor(buffer_size=SmallBuffer)
MaxSamples  == 33    \* harness: number of add_sample calls explored
MaxEpoch    == 1     \* harness: the clock starts anywhere in 0..MaxEpoch
MaxLatency  == 1     \* session: read_fifo takes 0..MaxLatency centiseconds

(***************************************************************************)
(* Program constants (in the units above)                                  *)
(***************************************************************************)
Milli            == 1000    \* fixed-point resolution of a Python float
DefaultBufferSize == 100    \* HeartRateMonitor.__init__(buffer_size=100)
FingerWindow     == 10      \* is_finger_detected: last 10 samples
FingerThreshold  == 10000   \* is_finger_detected: mean > 10000
MinSamples       == 30      \* calculate_bpm / calculate_spo2: len < 30
window           == 5       \* calculate_bpm: moving-average window
MinInterval      == 40      \* calculate_bpm: 0.4 < time_diff
MaxInterval      == 200     \* calculate_bpm: time_diff < 2.0
MinBpm           == 40      \* calculate_bpm: 40 <= new_bpm
MaxBpm           == 200     \* calculate_bpm: new_bpm <= 200
MinSpo2          == 70      \* calculate_spo2: 70 <= spo2
MaxSpo2          == 100     \* calculate_spo2: spo2 <= 100
DURATION         == 1000    \* read_sensor(duration=10)
WARMUP           == 300     \* read_sensor(warmup=3)
SLEEP            == 5       \* time.sleep(0.05)

(***************************************************************************)
(* Arithmetic helpers                                                      *)
(***************************************************************************)
Abs(x) == IF x < 0 THEN -x ELSE x

RECURSIVE SumFrom(_, _, _)
\* sum(s[lo..hi]), adding the two halves of the range
SumFrom(s, lo, hi) ==
    IF lo > hi THEN 0
    ELSE IF lo = hi THEN s[lo]
    ELSE LET mid == (lo + hi) \div 2
         IN  SumFrom(s, lo, mid) + SumFrom(s, mid + 1, hi)

Sum(s) == SumFrom(s, 1, Len(s))

RECURSIVE MaxBetween(_, _, _)
\* max(s[lo..hi]), lo <= hi
MaxBetween(s, lo, hi) ==
    IF lo = hi THEN s[lo]
    ELSE LET mid == (lo + hi) \div 2
             a == MaxBetween(s, lo, mid)
             b == MaxBetween(s, mid + 1, hi)
         IN  IF a > b THEN a ELSE b

MaxFrom(s, i) == MaxBetween(s, i, Len(s))

RECURSIVE MinBetween(_, _, _)
\* min(s[lo..hi]), lo <= hi
MinBetween(s, lo, hi) ==
    IF lo = hi THEN s[lo]
    ELSE LET mid == (lo + hi) \div 2
             a == MinBetween(s, lo, mid)
             b == MinBetween(s, mid + 1, hi)
         IN  IF a < b THEN a ELSE b

MinFrom(s, i) == MinBetween(s, i, Len(s))

RECURSIVE SqrtBetween(_, _, _)
\* largest r in lo..hi with r*r <= x, by bisection (lo*lo <= x < (hi+1)^2)
SqrtBetween(x, lo, hi) ==
    IF lo >= hi THEN lo
    ELSE LET mid == (lo + hi + 1) \div 2
         IN  IF mid * mid <= x THEN SqrtBetween(x, mid, hi)
             ELSE SqrtBetween(x, lo, mid - 1)

Isqrt(x) == SqrtBetween(x, 0, 46340)

\* int(x) of a non-negative float
IntOf(x) == (x \div Milli) * Milli

\* the last n elements of s (all of s when it is shorter): list(d)[-n:]
LastN(s, n) == IF Len(s) <= n THEN s ELSE SubSeq(s, Len(s) - n + 1, Len(s))

(***************************************************************************)
(* The optical signal (environment).  A triangular pulse of period p and   *)
(* amplitude amp riding on a constant level; the pulse changes from its    *)
(* first to its second shape at time tsw.  read_fifo returns the value of  *)
(* the signal at the time of the read.                                     *)
(***************************************************************************)
Tri(t, p, amp) ==
    LET h == p \div 2 IN (amp * (h - Abs((t % p) - h))) \div h

Seg(w, t) == IF t < w.tsw THEN w.a ELSE w.b

read_fifo(w, t) ==
    [ir  |-> w.base  + Tri(t, Seg(w, t).p, Seg(w, t).amp),
     red |-> w.rbase + Tri(t, Seg(w, t).p, Seg(w, t).ramp)]

Shape(p, amp, ramp) == [p |-> p, amp |-> amp, ramp |-> ramp]

Signal(base, rbase, a, tsw, b) ==
    [base |-> base, rbase |-> rbase, a |-> a, tsw |-> tsw, b |-> b]

(***************************************************************************)
(* collections.deque(maxlen=n).append(x)                                   *)
(***************************************************************************)
\* mutant: a full deque refuses the new element instead of evicting the oldest
DequeAppend_DropNewest(d, x, n) ==
    IF Len(d) >= n THEN d ELSE Append(d, x)

\* mutant: no maxlen, nothing is ever evicted
DequeAppend_Unbounded(d, x, n) == Append(d, x)

\* mutant: a full deque is cleared before the new element is stored
DequeAppend_Reset(d, x, n) ==
    IF Len(d) >= n THEN <<x>> ELSE Append(d, x)

DequeAppend(d, x, n) ==
    IF n = 0 THEN d
    ELSE IF Len(d) >= n THEN Append(Tail(d), x)
    ELSE Append(d, x)

(***************************************************************************)
(* HeartRateMonitor.is_finger_detected                                     *)
(***************************************************************************)
\* np.mean(recent_ir) > 10000, recent_ir has FingerWindow elements
\* mutant: >= instead of >
MeanAbove_OrEqual(recent_ir) == Sum(recent_ir) >= FingerThreshold * Len(recent_ir)

MeanAbove(recent_ir) == Sum(recent_ir) > FingerThreshold * Len(recent_ir)

FingerDetected(ir) ==
    IF Len(ir) < FingerWindow THEN FALSE
    ELSE MeanAbove(LastN(ir, FingerWindow))

(***************************************************************************)
(* HeartRateMonitor.calculate_bpm                                          *)
(***************************************************************************)
\* np.convolve(ir_data, np.ones(window)/window, mode='valid'), every entry
\* multiplied by window so that it stays an integer
Smoothed(ir_data) ==
    [i \in 1..(Len(ir_data) - window + 1) |-> SumFrom(ir_data, i, i + window - 1)]

\* smoothed[i] > np.mean(smoothed) + 0.3 * (np.max(smoothed) - np.min(smoothed))
AboveThreshold(sm, i) ==
    10 * Len(sm) * sm[i] > 10 * Sum(sm) + 3 * Len(sm) * (MaxFrom(sm, 1) - MinFrom(sm, 1))

\* smoothed[i] > smoothed[i-1] and smoothed[i] > smoothed[i+1]
\* mutant: the right end of a plateau counts as a maximum
LocalMax_Plateau(sm, i) == sm[i] >= sm[i - 1] /\ sm[i] > sm[i + 1]

LocalMax(sm, i) == sm[i] > sm[i - 1] /\ sm[i] > sm[i + 1]

\* for i in range(1, len(smoothed) - 1): the peaks, in increasing order.
\* Index i of the code (0-based) is index i + 1 here.
\* mutant: the indices are visited from the last one down
Peaks_Reversed(sm) ==
    LET idx == [i \in 1..(Len(sm) - 2) |-> Len(sm) - i]
    IN  SelectSeq(idx, LAMBDA i : LocalMax(sm, i) /\ AboveThreshold(sm, i))

Peaks(sm) ==
    LET idx == [i \in 1..(Len(sm) - 2) |-> i + 1]
    IN  SelectSeq(idx, LAMBDA i : LocalMax(sm, i) /\ AboveThreshold(sm, i))

\* 0.4 < time_diff < 2.0
\* mutant: the limits themselves are accepted
ValidInterval_Inclusive(d) == MinInterval <= d /\ d <= MaxInterval

ValidInterval(d) == MinInterval < d /\ d < MaxInterval

\* the kept differences timestamps[peaks[i]] - timestamps[peaks[i-1]]
PeakIntervals(peaks, ts) ==
    LET diffs == [i \in 1..(Len(peaks) - 1) |-> ts[peaks[i + 1]] - ts[peaks[i]]]
    IN  SelectSeq(diffs, ValidInterval)

\* 40 <= 60.0 / np.mean(peak_intervals) <= 200, decided exactly
\* mutant: the physiological range test is missing
BpmInRange_Any(iv) == TRUE

BpmInRange(iv) ==
    /\ MinBpm * Sum(iv) <= 6000 * Len(iv)
    /\ 6000 * Len(iv) <= MaxBpm * Sum(iv)

\* new_bpm = 60.0 / avg_interval
NewBpm(iv) == (6000 * Milli * Len(iv)) \div Sum(iv)

\* self.bpm = new_bpm if self.bpm == 0 else 0.7 * self.bpm + 0.3 * new_bpm
\* mutant: the first estimate is blended with the initial 0 as well
BlendBpm_NoFirstValue(old, new) == (7 * old + 3 * new) \div 10

\* mutant: the weights of the SpO2 blend, 0.8 and 0.2
BlendBpm_SlowWeights(old, new) == IF old = 0 THEN new ELSE (8 * old + 2 * new) \div 10

BlendBpm(old, new) == IF old = 0 THEN new ELSE (7 * old + 3 * new) \div 10

\* the value of self.bpm after calculate_bpm on >= MinSamples samples
\* mutant: without a valid estimate the smoothed value is cleared
NextBpm_Cleared(old, ir, ts) ==
    LET peaks == Peaks(Smoothed(ir))
        iv    == IF Len(peaks) >= 2 THEN PeakIntervals(peaks, ts) ELSE << >>
    IN  IF Len(iv) > 0 /\ BpmInRange(iv) THEN BlendBpm(old, NewBpm(iv)) ELSE 0

NextBpm(old, ir, ts) ==
    LET peaks == Peaks(Smoothed(ir))
        iv    == IF Len(peaks) >= 2 THEN PeakIntervals(peaks, ts) ELSE << >>
    IN  IF Len(iv) > 0 /\ BpmInRange(iv) THEN BlendBpm(old, NewBpm(iv)) ELSE old

(***************************************************************************)
(* HeartRateMonitor.calculate_spo2                                         *)
(***************************************************************************)
\* len(data) * np.std(data), rounded down; the deviations are taken from
\* data[0], which leaves the standard deviation unchanged
NStd(data) ==
    LET d  == [i \in 1..Len(data) |-> data[i] - data[1]]
        sq == [i \in 1..Len(data) |-> d[i] * d[i]]
    IN  Isqrt(Len(data) * Sum(sq) - Sum(d) * Sum(d))

\* if ir_dc == 0 or red_dc == 0 or ir_ac == 0
\* mutant: the guard forgets ir_ac
ZeroGuard_DcOnly(ir, red) == Sum(ir) = 0 \/ Sum(red) = 0

ZeroGuard(ir, red) == Sum(ir) = 0 \/ Sum(red) = 0 \/ NStd(ir) = 0

\* the spo2 value of a division by zero: numpy yields inf or nan (with a
\* warning, not an exception), which fails every range test
NonFinite == 0 - Milli

\* r = (red_ac / red_dc) / (ir_ac / ir_dc), computed as
\* (red_ac / ir_ac) * (ir_dc / red_dc); len(data) cancels in both factors
Ratio(ir, red) ==
    (((NStd(red) * Milli) \div NStd(ir)) * ((Sum(ir) * Milli) \div Sum(red))) \div Milli

\* spo2 = 110.0 - 25.0 * r
RawSpo2(ir, red) ==
    IF Sum(ir) = 0 \/ Sum(red) = 0 \/ NStd(ir) = 0 THEN NonFinite
    ELSE 110 * Milli - 25 * Ratio(ir, red)

\* 70 <= spo2 <= 100
\* mutant: only the upper end of the range is tested
Spo2InRange_UpperOnly(v) == v <= MaxSpo2 * Milli /\ v > 0

Spo2InRange(v) == MinSpo2 * Milli <= v /\ v <= MaxSpo2 * Milli

\* self.spo2 = spo2 if self.spo2 == 0 else 0.8 * self.spo2 + 0.2 * spo2
BlendSpo2(old, new) == IF old = 0 THEN new ELSE (8 * old + 2 * new) \div 10

\* the value of self.spo2 after the range test and the blend
NextSpo2(old, ir, red) ==
    IF Spo2InRange(RawSpo2(ir, red)) THEN BlendSpo2(old, RawSpo2(ir, red)) ELSE old

(***************************************************************************)
(* HeartRateMonitor: the four methods as state changes.  t is the value of *)
(* time.time() during the call.                                            *)
(***************************************************************************)
Ret(op, val, path) == [op |-> op, val |-> val, path |-> path]

add_sample(ir, red, t) ==
    /\ ir_buffer'  = DequeAppend(ir_buffer, ir, buffer_size)
    /\ red_buffer' = DequeAppend(red_buffer, red, buffer_size)
    /\ timestamps' = DequeAppend(timestamps, t, buffer_size)
    /\ pushed' = Append(pushed, <<ir, red, t>>)
    /\ ret' = Ret("add_sample", 0, "none")
    /\ UNCHANGED <<buffer_size, bpm, spo2>>

is_finger_detected ==
    /\ ret' = Ret("is_finger_detected", FingerDetected(ir_buffer), "none")
    /\ UNCHANGED <<monitor_vars, pushed>>

calculate_bpm ==
    /\ IF Len(ir_buffer) < MinSamples
       THEN bpm' = bpm /\ ret' = Ret("calculate_bpm", 0, "short")
       ELSE IF Len(ir_buffer) < window
       THEN bpm' = bpm /\ ret' = Ret("calculate_bpm", bpm, "window")
       ELSE /\ bpm' = NextBpm(bpm, ir_buffer, timestamps)
            /\ ret' = Ret("calculate_bpm", IntOf(bpm'), "computed")
    /\ UNCHANGED <<buffer_size, ir_buffer, red_buffer, timestamps, spo2, pushed>>

calculate_spo2 ==
    /\ IF Len(ir_buffer) < MinSamples \/ Len(red_buffer) < MinSamples
       THEN spo2' = spo2 /\ ret' = Ret("calculate_spo2", 0, "short")
       ELSE IF ZeroGuard(ir_buffer, red_buffer)
       THEN spo2' = spo2 /\ ret' = Ret("calculate_spo2", spo2, "guard")
       ELSE /\ spo2' = NextSpo2(spo2, ir_buffer, red_buffer)
            /\ ret' = Ret("calculate_spo2", IntOf(spo2'), "computed")
    /\ UNCHANGED <<buffer_size, ir_buffer, red_buffer, timestamps, bpm, pushed>>

(***************************************************************************)
(* Harness: a HeartRateMonitor(buffer_size=SmallBuffer) driven through its *)
(* public methods.  A sample arrives every `period`; between two samples   *)
(* each query method is called at most once, in any order, or not at all.  *)
(***************************************************************************)
SamplePeriods == {5, 6, 10}

HarnessSignals ==
    { Signal(10100, 10100, Shape(60, 40, 20), 100, Shape(70, 40, 40)),
      Signal(10000, 10000, Shape(50, 0, 0), 0, Shape(50, 0, 0)),
      Signal(10001, 9000, Shape(50, 0, 30), 0, Shape(50, 0, 30)),
      Signal(0, 0, Shape(50, 0, 0), 0, Shape(50, 0, 0)),
      Signal(10100, 0, Shape(60, 40, 0), 0, Shape(60, 40, 0)),
      Signal(9980, 10100, Shape(60, 40, 40), 0, Shape(60, 40, 40)),
      Signal(10100, 10100, Shape(160, 40, 80), 0, Shape(160, 40, 80)) }

NoResult == [status |-> "none", heart_rate |-> 0, spo2 |-> 0]

\* what is remembered of a finished session
NoRun ==
    [result |-> NoResult, bpm_samples |-> << >>, spo2_samples |-> << >>,
     pushed |-> << >>, start_time |-> 0]

\* the request threads of the server
Threads == {1, 2}

\* the threads that serve the camera routes
CameraThreads == {1, 2, 3}

\* a thread that serves no camera route
Idle == [h |-> "idle", at |-> "idle"]

\* api.py 48-50: picam2 = None, camera_lock = threading.Lock(),
\* is_streaming = False
NoCamera ==
    /\ picam2 = "None"
    /\ camera = "closed"
    /\ camera_lock = 0
    /\ is_streaming = FALSE
    /\ cam_thread = [t \in CameraThreads |-> Idle]
    /\ captured = [by |-> 0, lock |-> 0, ref |-> "None", state |-> "closed"]

\* no request is being served
NoRequests ==
    /\ thread_pc = [t \in Threads |-> "t_idle"]
    /\ thread_reads = [t \in Threads |-> 0]
    /\ bus_log = << >>
    /\ NoCamera

\* the same, in a process that could import picamera2
NoServer ==
    /\ NoRequests
    /\ camera_available = TRUE

\* a process in which read_sensor was not called yet
IdleProcess ==
    /\ pc = "api"
    /\ start_time = 0
    /\ sample = [ir |-> 0, red |-> 0]
    /\ loop_elapsed = 0
    /\ gate_elapsed = 0
    /\ iter = 0
    /\ nread = 0
    /\ cur_bpm = 0
    /\ cur_spo2 = 0
    /\ bpm_samples = << >>
    /\ spo2_samples = << >>
    /\ sensor_open = FALSE
    /\ result = NoResult
    /\ configured = FALSE
    /\ finger_detected_time = 0
    /\ stable_readings = << >>
    /\ NoRequests
    /\ session_no = 1
    /\ first_run = NoRun

InitSessionVars ==
    /\ IdleProcess
    /\ camera_available = TRUE

\* HeartRateMonitor.__init__(buffer_size)
NewMonitor(n) ==
    /\ buffer_size = n
    /\ ir_buffer = << >>
    /\ red_buffer = << >>
    /\ timestamps = << >>
    /\ bpm = 0
    /\ spo2 = 0

Init ==
    /\ NewMonitor(SmallBuffer)
    /\ now \in 0..MaxEpoch
    /\ wave \in HarnessSignals
    /\ period \in SamplePeriods
    /\ ret = Ret("none", 0, "none")
    /\ pushed = << >>
    /\ called = {}
    /\ InitSessionVars

CallAddSample ==
    /\ pc = "api"
    /\ Len(pushed) < MaxSamples
    /\ now' = now + period
    /\ add_sample(read_fifo(wave, now').ir, read_fifo(wave, now').red, now')
    /\ called' = {}
    /\ UNCHANGED <<wave, period, session_vars>>

CallIsFingerDetected ==
    /\ pc = "api"
    /\ "is_finger_detected" \notin called
    /\ is_finger_detected
    /\ called' = called \cup {"is_finger_detected"}
    /\ UNCHANGED <<now, wave, period, session_vars>>

CallCalculateBpm ==
    /\ pc = "api"
    /\ "calculate_bpm" \notin called
    /\ calculate_bpm
    /\ called' = called \cup {"calculate_bpm"}
    /\ UNCHANGED <<now, wave, period, session_vars>>

CallCalculateSpo2 ==
    /\ pc = "api"
    /\ "calculate_spo2" \notin called
    /\ calculate_spo2
    /\ called' = called \cup {"calculate_spo2"}
    /\ UNCHANGED <<now, wave, period, session_vars>>

Next ==
    \/ CallAddSample
    \/ CallIsFingerDetected
    \/ CallCalculateBpm
    \/ CallCalculateSpo2

Spec == Init /\ [][Next]_vars

(***************************************************************************)
(* api.read_sensor(duration=10, warmup=3), one step per statement.         *)
(*   idle -> check -> setup -> loop -> read -> gate -> add -> finger ->    *)
(*   bpm -> spo2 -> filter -> sleep -> loop ... -> close -> compute -> done*)
(* An exception outside the loop ends in "failed" with an error result.    *)
(***************************************************************************)
\* while time.time() - start_time < duration
\* mutant: the loop runs for the warm-up time only
LoopContinues_Warmup(elapsed) == elapsed < WARMUP

\* mutant: the loop is entered once more when the duration has just elapsed
LoopContinues_Inclusive(elapsed) == elapsed <= DURATION

LoopContinues(elapsed) == elapsed < DURATION

\* if time.time() - start_time > warmup and use_monitor
\* mutant: samples are pushed from the first tick on
WarmupOver_Always(elapsed) == TRUE

\* mutant: the warm-up is a third of what was asked for
WarmupOver_Short(elapsed) == 3 * elapsed > WARMUP

WarmupOver(elapsed) == elapsed > WARMUP

\* if 40 < bpm < 200
BpmAccepted(v) == 40 * Milli < v /\ v < 200 * Milli

\* if 80 < spo2 < 100
Spo2Accepted(v) == 80 * Milli < v /\ v < 100 * Milli

\* sorted(s): the element at index i goes to the position given by the
\* number of elements that sort before it (ties keep their order)
sorted(s) ==
    LET n    == Len(s)
        rank == [i \in 1..n |->
                   Cardinality({j \in 1..n : s[j] < s[i] \/ (s[j] = s[i] /\ j < i)}) + 1]
        at   == [k \in 1..n |-> CHOOSE i \in 1..n : rank[i] = k]
    IN  [k \in 1..n |-> s[at[k]]]

\* xs[trim:-trim] if trim > 0 and len(xs) > 2 else xs, with trim = len(xs) // 5
\* mutant: only the low end is cut off (xs[trim:])
Trimmed_LowOnly(xs) ==
    LET trim == Len(xs) \div 5
    IN  IF trim > 0 /\ Len(xs) > 2 THEN SubSeq(xs, trim + 1, Len(xs)) ELSE xs

Trimmed(xs) ==
    LET trim == Len(xs) \div 5
    IN  IF trim > 0 /\ Len(xs) > 2 THEN SubSeq(xs, trim + 1, Len(xs) - trim) ELSE xs

\* int(sum(trimmed) / len(trimmed)) of the sorted samples, 0 without samples
\* mutant: fewer than five samples count as no samples
TrimmedMean_NeedsFive(samples) ==
    LET t == Trimmed(sorted(samples))
    IN  IF Len(samples) < 5 \/ t = << >> THEN 0
        ELSE IntOf(Sum(t) \div Len(t))

TrimmedMean(samples) ==
    LET t == Trimmed(sorted(samples))
    IN  IF samples = << >> \/ t = << >> THEN 0
        ELSE IntOf(Sum(t) \div Len(t))

\* the loop iterations at which the bus may raise during read_fifo
FaultIters == {2, 100}

\* a device on which every read_fifo raises (it answers the identification
\* of check_sensor or not, as any other)
DeadBus == Signal(0 - 1, 0 - 1, Shape(80, 0, 0), 0, Shape(80, 0, 0))

Dead(w) == w.base < 0

SessionSignals ==
    { Signal(10100, 10100, Shape(80, 40, 20), 600, Shape(100, 40, 40)),
      Signal(10100, 10100, Shape(60, 40, 30), 460, Shape(60, 0, 0)),
      Signal(10100, 0, Shape(80, 40, 0), 0, Shape(80, 40, 0)),
      Signal(9000, 9000, Shape(80, 40, 40), 0, Shape(80, 40, 40)),
      Signal(0, 0, Shape(80, 0, 0), 0, Shape(80, 0, 0)),
      Signal(10100, 10100, Shape(160, 40, 80), 0, Shape(160, 40, 80)),
      Signal(9980, 10100, Shape(60, 40, 40), 0, Shape(60, 40, 40)),
      Signal(10100, 10100, Shape(80, 40, 56), 0, Shape(80, 40, 56)),
      Signal(10100, 10100, Shape(80, 0, 0), 900, Shape(50, 40, 20)),
      Signal(10100, 10100, Shape(80, 40, 20), 500, Shape(160, 40, 80)),
      Signal(10100, 10100, Shape(80, 40, 47), 460, Shape(80, 0, 0)),
      DeadBus }

InitSession ==
    /\ NewMonitor(DefaultBufferSize)
    /\ now = 0
    /\ wave \in SessionSignals
    /\ period \in 0..MaxLatency
    /\ Dead(wave) => period > 0    \* a failing bus transfer takes time
    /\ ret = Ret("none", 0, "none")
    /\ pushed = << >>
    /\ called = {}
    /\ pc = "idle"
    /\ start_time = 0
    /\ sample = [ir |-> 0, red |-> 0]
    /\ loop_elapsed = 0
    /\ gate_elapsed = 0
    /\ iter = 0
    /\ nread = 0
    /\ cur_bpm = 0
    /\ cur_spo2 = 0
    /\ bpm_samples = << >>
    /\ spo2_samples = << >>
    /\ sensor_open = FALSE
    /\ result = NoResult
    /\ configured = FALSE
    /\ finger_detected_time = 0
    /\ stable_readings = << >>
    /\ NoServer
    /\ session_no = 1
    /\ first_run = NoRun

Error(msg) == [status |-> msg, heart_rate |-> 0, spo2 |-> 0]

env_vars == <<wave, period, called, stable_readings, server_vars, repeat_vars>>
monitor_state == <<monitor_vars, ret, pushed>>
locals == <<sample, loop_elapsed, gate_elapsed, iter, nread, cur_bpm, cur_spo2,
            finger_detected_time>>

\* the control points of the loop body of read_sensor (inside its inner try)
LoopBody == {"read", "gate", "add", "finger", "bpm", "spo2", "filter", "sleep"}

\* the other control points of read_sensor inside its outer try
FunctionBody == {"idle", "check", "setup", "loop", "close", "compute"}

\* the control points of read_sensor_data, all inside its one try
WrapperBody == {"w_idle", "w_check", "w_setup", "w_loop", "w_read", "w_add",
                "w_finger", "w_bpm", "w_spo2", "w_filter", "w_sleep",
                "w_close", "w_compute"}

\* The except clause that handles an exception raised at a control point:
\* "continue" is the bare `except: continue` of the loop body of read_sensor,
\* "return" the `except Exception as e: return {...}` around a function body.
\* mutant: the handler around the function body is missing
Handler_LoopOnly(at) == IF at \in LoopBody THEN "continue" ELSE "none"

Handler(at) ==
    IF at \in LoopBody THEN "continue"
    ELSE IF at \in FunctionBody \cup WrapperBody THEN "return"
    ELSE "none"

\* where an exception raised at a control point leaves the session
Raised(at) ==
    CASE Handler(at) = "continue" -> [pc |-> "loop", result |-> result]
      [] Handler(at) = "return" ->
           [pc |-> IF at \in WrapperBody THEN "w_failed" ELSE "failed",
            result |-> Error("exception")]
      [] OTHER -> [pc |-> "escaped", result |-> result]

\* sensor = MAX30100(); SMBus(bus_number) may raise
Construct ==
    /\ pc = "idle"
    /\ \E ok \in BOOLEAN :
         IF ok THEN pc' = "check" /\ sensor_open' = TRUE /\ result' = result
         ELSE pc' = Raised("idle").pc /\ sensor_open' = sensor_open
              /\ result' = Raised("idle").result
    /\ UNCHANGED <<now, env_vars, monitor_state, locals, start_time,
                   bpm_samples, spo2_samples, configured>>

\* if not sensor.check_sensor(): return {... 'error': 'Sensor not detected'}
\* mutant: the device is configured before it is checked
CheckSensor_AfterSetup ==
    /\ pc = "check"
    /\ configured' = TRUE
    /\ \E ok \in BOOLEAN :
         IF ok THEN pc' = "setup" /\ result' = result
         ELSE pc' = "failed" /\ result' = Error("Sensor not detected")
    /\ UNCHANGED <<now, env_vars, monitor_state, locals, start_time,
                   bpm_samples, spo2_samples, sensor_open>>

CheckSensor ==
    /\ pc = "check"
    /\ \E ok \in BOOLEAN :
         IF ok THEN pc' = "setup" /\ result' = result
         ELSE pc' = "failed" /\ result' = Error("Sensor not detected")
    /\ UNCHANGED <<now, env_vars, monitor_state, locals, start_time,
                   bpm_samples, spo2_samples, sensor_open, configured>>

\* sensor.setup(); monitor = HeartRateMonitor(); start_time = time.time();
\* bpm_samples = []; spo2_samples = []
\* mutant: the monitor is one object of the module, not created per call
Setup_SharedMonitor ==
    /\ pc = "setup"
    /\ \E ok \in BOOLEAN :
         IF ok
         THEN /\ pc' = "loop"
              /\ UNCHANGED monitor_vars
              /\ start_time' = now
              /\ bpm_samples' = << >>
              /\ spo2_samples' = << >>
              /\ result' = result
              /\ configured' = TRUE
         ELSE /\ pc' = Raised("setup").pc
              /\ result' = Raised("setup").result
              /\ configured' \in BOOLEAN
              /\ UNCHANGED <<monitor_vars, start_time, bpm_samples,
                             spo2_samples>>
    /\ UNCHANGED <<now, env_vars, ret, pushed, locals, sensor_open>>

Setup ==
    /\ pc = "setup"
    /\ \E ok \in BOOLEAN :
         IF ok
         THEN /\ pc' = "loop"
              /\ buffer_size' = DefaultBufferSize
              /\ ir_buffer' = << >>
              /\ red_buffer' = << >>
              /\ timestamps' = << >>
              /\ bpm' = 0
              /\ spo2' = 0
              /\ start_time' = now
              /\ bpm_samples' = << >>
              /\ spo2_samples' = << >>
              /\ result' = result
              /\ configured' = TRUE
         ELSE /\ pc' = Raised("setup").pc
              /\ result' = Raised("setup").result
              /\ configured' \in BOOLEAN
              /\ UNCHANGED <<monitor_vars, start_time, bpm_samples, spo2_samples>>
    /\ UNCHANGED <<now, env_vars, ret, pushed, locals, sensor_open>>

\* while time.time() - start_time < duration:
LoopTest ==
    /\ pc = "loop"
    /\ loop_elapsed' = now - start_time
    /\ IF LoopContinues(now - start_time)
       THEN pc' = "read" /\ iter' = iter + 1
       ELSE pc' = "close" /\ iter' = iter
    /\ UNCHANGED <<now, env_vars, monitor_state, start_time, sample,
                   gate_elapsed, nread, cur_bpm, cur_spo2, bpm_samples,
                   spo2_samples, sensor_open, result,
                   configured, finger_detected_time>>

\* ir, red = sensor.read_fifo()
ReadFifo ==
    /\ pc = "read"
    /\ ~Dead(wave)
    /\ now' = now + period
    /\ sample' = read_fifo(wave, now')
    /\ nread' = nread + 1
    /\ pc' = "gate"
    /\ UNCHANGED <<env_vars, monitor_state, start_time, loop_elapsed,
                   gate_elapsed, iter, cur_bpm, cur_spo2, bpm_samples,
                   spo2_samples, sensor_open, result,
                   configured, finger_detected_time>>

\* read_fifo raises: except: continue  (the sleep is skipped)
ReadFifoFails ==
    /\ pc = "read"
    /\ iter \in FaultIters \/ Dead(wave)
    /\ now' = now + period
    /\ pc' = Raised("read").pc
    /\ result' = Raised("read").result
    /\ UNCHANGED <<env_vars, monitor_state, start_time, locals, bpm_samples,
                   spo2_samples, sensor_open, configured>>

\* if time.time() - start_time > warmup and use_monitor:
WarmupTest ==
    /\ pc = "gate"
    /\ gate_elapsed' = now - start_time
    /\ pc' = IF WarmupOver(now - start_time) THEN "add" ELSE "sleep"
    /\ UNCHANGED <<now, env_vars, monitor_state, start_time, sample,
                   loop_elapsed, iter, nread, cur_bpm, cur_spo2, bpm_samples,
                   spo2_samples, sensor_open, result,
                   configured, finger_detected_time>>

\* monitor.add_sample(ir, red)
SessionAddSample ==
    /\ pc = "add"
    /\ add_sample(sample.ir, sample.red, now)
    /\ pc' = "finger"
    /\ UNCHANGED <<now, env_vars, start_time, locals, bpm_samples,
                   spo2_samples, sensor_open, result, configured>>

\* if monitor.is_finger_detected():
\* mutant: the estimators run whether or not a finger is detected
SessionIsFingerDetected_Ignored ==
    /\ pc = "finger"
    /\ is_finger_detected
    /\ pc' = "bpm"
    /\ UNCHANGED <<now, env_vars, start_time, locals, bpm_samples,
                   spo2_samples, sensor_open, result, configured>>

SessionIsFingerDetected ==
    /\ pc = "finger"
    /\ is_finger_detected
    /\ pc' = IF FingerDetected(ir_buffer) THEN "bpm" ELSE "sleep"
    /\ finger_detected_time' = IF FingerDetected(ir_buffer)
                               THEN finger_detected_time + 1
                               ELSE finger_detected_time
    /\ UNCHANGED <<now, env_vars, start_time, sample, loop_elapsed,
                   gate_elapsed, iter, nread, cur_bpm, cur_spo2, bpm_samples,
                   spo2_samples, sensor_open, result, configured>>

\* bpm = monitor.calculate_bpm()
SessionCalculateBpm ==
    /\ pc = "bpm"
    /\ calculate_bpm
    /\ cur_bpm' = ret'.val
    /\ pc' = "spo2"
    /\ UNCHANGED <<now, env_vars, start_time, sample, loop_elapsed,
                   gate_elapsed, iter, nread, cur_spo2, bpm_samples,
                   spo2_samples, sensor_open, result,
                   configured, finger_detected_time>>

\* spo2 = monitor.calculate_spo2()
SessionCalculateSpo2 ==
    /\ pc = "spo2"
    /\ calculate_spo2
    /\ cur_spo2' = ret'.val
    /\ pc' = "filter"
    /\ UNCHANGED <<now, env_vars, start_time, sample, loop_elapsed,
                   gate_elapsed, iter, nread, cur_bpm, bpm_samples,
                   spo2_samples, sensor_open, result,
                   configured, finger_detected_time>>

\* if 40 < bpm < 200: bpm_samples.append(bpm)
\* if 80 < spo2 < 100: spo2_samples.append(spo2)
Collect ==
    /\ pc = "filter"
    /\ bpm_samples' = IF BpmAccepted(cur_bpm) THEN Append(bpm_samples, cur_bpm)
                      ELSE bpm_samples
    /\ spo2_samples' = IF Spo2Accepted(cur_spo2) THEN Append(spo2_samples, cur_spo2)
                       ELSE spo2_samples
    /\ pc' = "sleep"
    /\ UNCHANGED <<now, env_vars, monitor_state, start_time, locals,
                   sensor_open, result, configured>>

\* time.sleep(0.05)
Sleep ==
    /\ pc = "sleep"
    /\ now' = now + SLEEP
    /\ pc' = "loop"
    /\ UNCHANGED <<env_vars, monitor_state, start_time, locals, bpm_samples,
                   spo2_samples, sensor_open, result, configured>>

\* sensor.close(); bus.close() may raise
Close ==
    /\ pc = "close"
    /\ \E ok \in BOOLEAN :
         IF ok THEN pc' = "compute" /\ sensor_open' = FALSE /\ result' = result
         ELSE pc' = Raised("close").pc /\ sensor_open' = sensor_open
              /\ result' = Raised("close").result
    /\ UNCHANGED <<now, env_vars, monitor_state, start_time, locals,
                   bpm_samples, spo2_samples, configured>>

\* result = {'heart_rate': ..., 'spo2': ...}; return result
Compute ==
    /\ pc = "compute"
    /\ result' = [status |-> "ok",
                  heart_rate |-> TrimmedMean(bpm_samples),
                  spo2 |-> TrimmedMean(spo2_samples)]
    /\ pc' = "done"
    /\ UNCHANGED <<now, env_vars, monitor_state, start_time, locals,
                   bpm_samples, spo2_samples, sensor_open, configured>>

NextSession ==
    \/ Construct
    \/ CheckSensor
    \/ Setup
    \/ LoopTest
    \/ ReadFifo
    \/ ReadFifoFails
    \/ WarmupTest
    \/ SessionAddSample
    \/ SessionIsFingerDetected
    \/ SessionCalculateBpm
    \/ SessionCalculateSpo2
    \/ Collect
    \/ Sleep
    \/ Close
    \/ Compute

SpecSession == InitSession /\ [][NextSession]_vars

(***************************************************************************)
(* sensor_wrapper.read_sensor_data(duration=10), one step per statement.   *)
(*   w_idle -> w_check -> w_setup -> w_loop -> w_read -> w_add ->          *)
(*   w_finger -> w_bpm -> w_spo2 -> w_filter -> w_sleep -> w_loop ... ->   *)
(*   w_close -> w_compute -> w_done                                        *)
(* There is no warm-up and no try inside the loop: every exception ends    *)
(* the session in "w_failed" with an error result.                         *)
(***************************************************************************)
MinReadings    == 5     \* if len(stable_readings) >= 5
RecentReadings == 10    \* stable_readings[-10:]

\* {'heart_rate': 0, 'spo2': 0, 'success': False, 'error': msg}; success is
\* True exactly for the status "ok"
Failure(msg) == Error(msg)

InitWrapper ==
    /\ NewMonitor(DefaultBufferSize)
    /\ now = 0
    /\ wave \in SessionSignals
    /\ period \in 0..MaxLatency
    /\ Dead(wave) => period > 0    \* a failing bus transfer takes time
    /\ ret = Ret("none", 0, "none")
    /\ pushed = << >>
    /\ called = {}
    /\ pc = "w_idle"
    /\ start_time = 0
    /\ sample = [ir |-> 0, red |-> 0]
    /\ loop_elapsed = 0
    /\ gate_elapsed = 0
    /\ iter = 0
    /\ nread = 0
    /\ cur_bpm = 0
    /\ cur_spo2 = 0
    /\ bpm_samples = << >>
    /\ spo2_samples = << >>
    /\ sensor_open = FALSE
    /\ result = NoResult
    /\ configured = FALSE
    /\ finger_detected_time = 0
    /\ stable_readings = << >>
    /\ NoServer
    /\ session_no = 1
    /\ first_run = NoRun

\* the variables read_sensor_data never touches
wrapper_env == <<wave, period, called, bpm_samples, spo2_samples, gate_elapsed,
                 server_vars, repeat_vars>>
wrapper_locals == <<sample, loop_elapsed, iter, nread, cur_bpm, cur_spo2,
                    finger_detected_time, stable_readings>>

\* sensor = MAX30100()
WrapperConstruct ==
    /\ pc = "w_idle"
    /\ \E ok \in BOOLEAN :
         IF ok THEN pc' = "w_check" /\ sensor_open' = TRUE /\ result' = result
         ELSE pc' = Raised("w_idle").pc /\ sensor_open' = sensor_open
              /\ result' = Raised("w_idle").result
    /\ UNCHANGED <<now, wrapper_env, monitor_state, wrapper_locals, start_time,
                   configured>>

\* if not sensor.check_sensor(): return {..., 'error': 'Sensor not found'}
WrapperCheckSensor ==
    /\ pc = "w_check"
    /\ \E ok \in BOOLEAN :
         IF ok THEN pc' = "w_setup" /\ result' = result
         ELSE pc' = "w_failed" /\ result' = Failure("Sensor not found")
    /\ UNCHANGED <<now, wrapper_env, monitor_state, wrapper_locals, start_time,
                   sensor_open, configured>>

\* sensor.setup(); monitor = HeartRateMonitor(); start_time = time.time();
\* finger_detected_time = 0; stable_readings = []
WrapperSetup ==
    /\ pc = "w_setup"
    /\ \E ok \in BOOLEAN :
         IF ok
         THEN /\ pc' = "w_loop"
              /\ buffer_size' = DefaultBufferSize
              /\ ir_buffer' = << >>
              /\ red_buffer' = << >>
              /\ timestamps' = << >>
              /\ bpm' = 0
              /\ spo2' = 0
              /\ start_time' = now
              /\ finger_detected_time' = 0
              /\ stable_readings' = << >>
              /\ result' = result
              /\ configured' = TRUE
         ELSE /\ pc' = Raised("w_setup").pc
              /\ result' = Raised("w_setup").result
              /\ configured' \in BOOLEAN
              /\ UNCHANGED <<monitor_vars, start_time, finger_detected_time,
                             stable_readings>>
    /\ UNCHANGED <<now, wrapper_env, ret, pushed, sample, loop_elapsed, iter,
                   nread, cur_bpm, cur_spo2, sensor_open>>

\* while time.time() - start_time < duration:
WrapperLoopTest ==
    /\ pc = "w_loop"
    /\ loop_elapsed' = now - start_time
    /\ IF LoopContinues(now - start_time)
       THEN pc' = "w_read" /\ iter' = iter + 1
       ELSE pc' = "w_close" /\ iter' = iter
    /\ UNCHANGED <<now, wrapper_env, monitor_state, start_time, sample, nread,
                   cur_bpm, cur_spo2, finger_detected_time, stable_readings,
                   sensor_open, result, configured>>

\* ir, red = sensor.read_fifo()
WrapperReadFifo ==
    /\ pc = "w_read"
    /\ ~Dead(wave)
    /\ now' = now + period
    /\ sample' = read_fifo(wave, now')
    /\ nread' = nread + 1
    /\ pc' = "w_add"
    /\ UNCHANGED <<wrapper_env, monitor_state, start_time, loop_elapsed, iter,
                   cur_bpm, cur_spo2, finger_detected_time, stable_readings,
                   sensor_open, result, configured>>

\* read_fifo raises: the exception leaves the loop and the session
WrapperReadFifoFails ==
    /\ pc = "w_read"
    /\ iter \in FaultIters \/ Dead(wave)
    /\ now' = now + period
    /\ pc' = Raised("w_read").pc
    /\ result' = Raised("w_read").result
    /\ UNCHANGED <<wrapper_env, monitor_state, start_time, wrapper_locals,
                   sensor_open, configured>>

\* monitor.add_sample(ir, red)
WrapperAddSample ==
    /\ pc = "w_add"
    /\ add_sample(sample.ir, sample.red, now)
    /\ pc' = "w_finger"
    /\ UNCHANGED <<now, wrapper_env, start_time, wrapper_locals, sensor_open,
                   result, configured>>

\* if monitor.is_finger_detected(): finger_detected_time += 1
WrapperIsFingerDetected ==
    /\ pc = "w_finger"
    /\ is_finger_detected
    /\ pc' = IF FingerDetected(ir_buffer) THEN "w_bpm" ELSE "w_sleep"
    /\ finger_detected_time' = IF FingerDetected(ir_buffer)
                               THEN finger_detected_time + 1
                               ELSE finger_detected_time
    /\ UNCHANGED <<now, wrapper_env, start_time, sample, loop_elapsed, iter,
                   nread, cur_bpm, cur_spo2, stable_readings, sensor_open,
                   result, configured>>

\* bpm = monitor.calculate_bpm()
WrapperCalculateBpm ==
    /\ pc = "w_bpm"
    /\ calculate_bpm
    /\ cur_bpm' = ret'.val
    /\ pc' = "w_spo2"
    /\ UNCHANGED <<now, wrapper_env, start_time, sample, loop_elapsed, iter,
                   nread, cur_spo2, finger_detected_time, stable_readings,
                   sensor_open, result, configured>>

\* spo2 = monitor.calculate_spo2()
WrapperCalculateSpo2 ==
    /\ pc = "w_spo2"
    /\ calculate_spo2
    /\ cur_spo2' = ret'.val
    /\ pc' = "w_filter"
    /\ UNCHANGED <<now, wrapper_env, start_time, sample, loop_elapsed, iter,
                   nread, cur_bpm, finger_detected_time, stable_readings,
                   sensor_open, result, configured>>

\* if bpm > 0 and spo2 > 0
\* mutant: a reading is kept as soon as the heart rate is valid
BothNonzero_BpmOnly(b, s) == b > 0

BothNonzero(b, s) == b > 0 /\ s > 0

\* if bpm > 0 and spo2 > 0:
\*     stable_readings.append({'bpm': bpm, 'spo2': spo2})
\*     print(f"BPM: {bpm:3d} | SpO2: {spo2:3d}% | ...")
\* The format code d raises ValueError for a float, and a float is what
\* calculate_spo2 returns from its zero guard (self.spo2, not truncated).
WrapperCollect ==
    /\ pc = "w_filter"
    /\ IF BothNonzero(cur_bpm, cur_spo2)
       THEN /\ stable_readings' =
                 Append(stable_readings, [bpm |-> cur_bpm, spo2 |-> cur_spo2])
            /\ IF ret.path = "guard"
               THEN pc' = Raised("w_filter").pc
                    /\ result' = Raised("w_filter").result
               ELSE pc' = "w_sleep" /\ result' = result
       ELSE pc' = "w_sleep" /\ UNCHANGED <<stable_readings, result>>
    /\ UNCHANGED <<now, wrapper_env, monitor_state, start_time, sample,
                   loop_elapsed, iter, nread, cur_bpm, cur_spo2,
                   finger_detected_time, sensor_open, configured>>

\* time.sleep(0.05)
WrapperSleep ==
    /\ pc = "w_sleep"
    /\ now' = now + SLEEP
    /\ pc' = "w_loop"
    /\ UNCHANGED <<wrapper_env, monitor_state, start_time, wrapper_locals,
                   sensor_open, result, configured>>

\* sensor.close()
WrapperClose ==
    /\ pc = "w_close"
    /\ \E ok \in BOOLEAN :
         IF ok THEN pc' = "w_compute" /\ sensor_open' = FALSE /\ result' = result
         ELSE pc' = Raised("w_close").pc /\ sensor_open' = sensor_open
              /\ result' = Raised("w_close").result
    /\ UNCHANGED <<now, wrapper_env, monitor_state, start_time, wrapper_locals,
                   configured>>

\* recent_readings = stable_readings[-10:]
\* int(sum(r[key] for r in recent_readings) / len(recent_readings))
RecentMean(readings, key) ==
    LET recent == LastN(readings, RecentReadings)
        values == [i \in 1..Len(recent) |-> recent[i][key]]
    IN  IntOf(Sum(values) \div Len(values))

\* if len(stable_readings) >= 5: return {..., 'success': True}
\* else: return {..., 'success': False, 'error': 'Not enough stable readings'}
WrapperCompute ==
    /\ pc = "w_compute"
    /\ result' = IF Len(stable_readings) >= MinReadings
                 THEN [status |-> "ok",
                       heart_rate |-> RecentMean(stable_readings, "bpm"),
                       spo2 |-> RecentMean(stable_readings, "spo2")]
                 ELSE Failure("Not enough stable readings")
    /\ pc' = "w_done"
    /\ UNCHANGED <<now, wrapper_env, monitor_state, start_time, wrapper_locals,
                   sensor_open, configured>>

NextWrapper ==
    \/ WrapperConstruct
    \/ WrapperCheckSensor
    \/ WrapperSetup
    \/ WrapperLoopTest
    \/ WrapperReadFifo
    \/ WrapperReadFifoFails
    \/ WrapperAddSample
    \/ WrapperIsFingerDetected
    \/ WrapperCalculateBpm
    \/ WrapperCalculateSpo2
    \/ WrapperCollect
    \/ WrapperSleep
    \/ WrapperClose
    \/ WrapperCompute

SpecWrapper == InitWrapper /\ [][NextWrapper]_vars

(***************************************************************************)
(* Both session functions of the repository: a session is either a call of *)
(* api.read_sensor or a call of sensor_wrapper.read_sensor_data.           *)
(***************************************************************************)
InitBoth == InitSession \/ InitWrapper

NextBoth == NextSession \/ NextWrapper

SpecBoth == InitBoth /\ [][NextBoth]_vars

\* one thread runs the function: whenever a statement can be executed, one
\* eventually is
LiveBoth == SpecBoth /\ WF_vars(NextBoth)

(***************************************************************************)
(* The aggregation step on its own: the statements after the loop of       *)
(* read_sensor and of read_sensor_data, applied to candidate lists drawn   *)
(* from a bounded set (among them 60..68, 150 in two orders).              *)
(***************************************************************************)
MaxCandidates == 10    \* the longest candidate list drawn

CandidateBases ==
    { <<60000, 61000, 62000, 63000, 64000, 65000, 66000, 67000, 68000,
        150000, 41000, 199000>>,
      <<150000, 68000, 60000, 67000, 61000, 66000, 62000, 65000, 63000,
        64000, 64000, 120000>>,
      <<75000, 75000, 75000, 74000, 75000, 57000, 75000, 75000, 62000,
        75000, 75000, 75000>> }

\* every run of at most MaxCandidates consecutive entries of a base
CandidateLists ==
    { SubSeq(base, r[1], r[2]) :
        base \in CandidateBases,
        r \in { q \in (1..12) \X (0..12) :
                  q[2] >= q[1] - 1 /\ q[2] - q[1] < MaxCandidates } }

Spo2Lists ==
    { << >>, <<97000, 98000, 97000>>,
      <<81000, 99000, 95300, 95300, 90000, 96000>> }

\* the pairs read_sensor_data would hold for a list of BPM candidates
Paired(bpms) == [i \in 1..Len(bpms) |-> [bpm |-> bpms[i], spo2 |-> 99000 - i * 1000]]

InitAggregate ==
    /\ NewMonitor(DefaultBufferSize)
    /\ now = DURATION
    /\ wave = Signal(0, 0, Shape(80, 0, 0), 0, Shape(80, 0, 0))
    /\ period = 0
    /\ ret = Ret("none", 0, "none")
    /\ pushed = << >>
    /\ called = {}
    /\ start_time = 0
    /\ sample = [ir |-> 0, red |-> 0]
    /\ loop_elapsed = DURATION
    /\ gate_elapsed = DURATION
    /\ iter = 0
    /\ nread = 0
    /\ cur_bpm = 0
    /\ cur_spo2 = 0
    /\ sensor_open = FALSE
    /\ result = NoResult
    /\ configured = TRUE
    /\ finger_detected_time = 0
    /\ NoServer
    /\ session_no = 1
    /\ first_run = NoRun
    /\ \/ /\ pc = "compute"
          /\ bpm_samples \in CandidateLists
          /\ spo2_samples \in Spo2Lists
          /\ stable_readings = << >>
       \/ /\ pc = "w_compute"
          /\ bpm_samples = << >>
          /\ spo2_samples = << >>
          /\ stable_readings \in { Paired(l) : l \in CandidateLists }

NextAggregate ==
    \/ Compute
    \/ WrapperCompute

SpecAggregate == InitAggregate /\ [][NextAggregate]_vars

(***************************************************************************)
(* The threaded server: app.run(..., threaded=True) handles every request  *)
(* in a thread of its own, and analyze calls read_sensor (with             *)
(* SENSOR_AVAILABLE true) holding no lock.  Each thread runs the skeleton  *)
(* of read_sensor on the one device; bus_log records which thread's        *)
(* read_fifo the device served, in order.                                  *)
(***************************************************************************)
MaxReads == 3    \* loop iterations of one session of a request thread

\* everything but the request threads
request_env == <<monitor_vars, now, wave, period, ret, pushed, called, pc,
                 start_time, sample, loop_elapsed, gate_elapsed, iter, nread,
                 cur_bpm, cur_spo2, bpm_samples, spo2_samples, sensor_open,
                 result, configured, finger_detected_time, stable_readings,
                 repeat_vars, camera_vars>>

\* the control points of a request thread between sensor = MAX30100() and
\* sensor.close()
InSession == {"t_check", "t_setup", "t_loop", "t_read", "t_close"}

InitServer ==
    /\ InitSession
    /\ period = 0

\* POST /api/analyze arrives and gets its thread
Accept(t) ==
    /\ thread_pc[t] = "t_idle"
    /\ thread_pc' = [thread_pc EXCEPT ![t] = "t_ai"]
    /\ UNCHANGED <<thread_reads, bus_log, request_env>>

\* the AI classification, or its skip; its exceptions end in warnings
Classify(t) ==
    /\ thread_pc[t] = "t_ai"
    /\ thread_pc' = [thread_pc EXCEPT ![t] = "t_sensor"]
    /\ UNCHANGED <<thread_reads, bus_log, request_env>>

\* sensor_result = read_sensor(duration=10, warmup=3): sensor = MAX30100()
ThreadConstruct(t) ==
    /\ thread_pc[t] = "t_sensor"
    /\ \E ok \in BOOLEAN :
         thread_pc' = [thread_pc EXCEPT ![t] = IF ok THEN "t_check" ELSE "t_failed"]
    /\ UNCHANGED <<thread_reads, bus_log, request_env>>

\* if not sensor.check_sensor(): return ...
ThreadCheckSensor(t) ==
    /\ thread_pc[t] = "t_check"
    /\ \E ok \in BOOLEAN :
         thread_pc' = [thread_pc EXCEPT ![t] = IF ok THEN "t_setup" ELSE "t_failed"]
    /\ UNCHANGED <<thread_reads, bus_log, request_env>>

\* sensor.setup(); monitor = HeartRateMonitor(); start_time = time.time()
ThreadSetup(t) ==
    /\ thread_pc[t] = "t_setup"
    /\ \E ok \in BOOLEAN :
         thread_pc' = [thread_pc EXCEPT ![t] = IF ok THEN "t_loop" ELSE "t_failed"]
    /\ UNCHANGED <<thread_reads, bus_log, request_env>>

\* while time.time() - start_time < duration:
ThreadLoopTest(t) ==
    /\ thread_pc[t] = "t_loop"
    /\ thread_pc' = [thread_pc EXCEPT
                       ![t] = IF thread_reads[t] < MaxReads THEN "t_read"
                              ELSE "t_close"]
    /\ UNCHANGED <<thread_reads, bus_log, request_env>>

\* ir, red = sensor.read_fifo() and the rest of the loop body; a failure is
\* swallowed by except: continue
ThreadReadFifo(t) ==
    /\ thread_pc[t] = "t_read"
    /\ thread_reads' = [thread_reads EXCEPT ![t] = @ + 1]
    /\ \E ok \in BOOLEAN :
         bus_log' = IF ok THEN Append(bus_log, t) ELSE bus_log
    /\ thread_pc' = [thread_pc EXCEPT ![t] = "t_loop"]
    /\ UNCHANGED request_env

\* sensor.close() and the aggregation
ThreadClose(t) ==
    /\ thread_pc[t] = "t_close"
    /\ \E ok \in BOOLEAN :
         thread_pc' = [thread_pc EXCEPT ![t] = IF ok THEN "t_done" ELSE "t_failed"]
    /\ UNCHANGED <<thread_reads, bus_log, request_env>>

\* return jsonify(response)
Respond(t) ==
    /\ thread_pc[t] \in {"t_done", "t_failed"}
    /\ thread_pc' = [thread_pc EXCEPT ![t] = "t_replied"]
    /\ UNCHANGED <<thread_reads, bus_log, request_env>>

NextServer ==
    \E t \in Threads :
        \/ Accept(t)
        \/ Classify(t)
        \/ ThreadConstruct(t)
        \/ ThreadCheckSensor(t)
        \/ ThreadSetup(t)
        \/ ThreadLoopTest(t)
        \/ ThreadReadFifo(t)
        \/ ThreadClose(t)
        \/ Respond(t)

SpecServer == InitServer /\ [][NextServer]_vars

(***************************************************************************)
(* Sessions one after the other in one process: read_sensor is called      *)
(* again after it returned.  What the earlier call left behind (its        *)
(* monitor, its lists) stays in the state until the new call assigns its   *)
(* own; the clock goes on.                                                 *)
(***************************************************************************)
MaxSessions == 2      \* calls of read_sensor in one behaviour

RequestPhase == 480   \* a common multiple of the periods of the signals

RepeatSignals ==
    { Signal(10100, 10100, Shape(80, 40, 56), 0, Shape(80, 40, 56)),
      Signal(10100, 10100, Shape(80, 40, 20), 600, Shape(100, 40, 40)) }

InitRepeat ==
    /\ InitSession
    /\ wave \in RepeatSignals
    /\ period = 1

\* the next call of read_sensor, at the next instant at which the periodic
\* signals are in the phase they had at time 0
NewRequest ==
    /\ pc \in {"done", "failed"}
    /\ session_no < MaxSessions
    /\ session_no' = session_no + 1
    /\ first_run' = IF session_no = 1
                     THEN [result |-> result, bpm_samples |-> bpm_samples,
                           spo2_samples |-> spo2_samples, pushed |-> pushed,
                           start_time |-> start_time]
                     ELSE first_run
    /\ now' = ((now \div RequestPhase) + 1) * RequestPhase
    /\ pc' = "idle"
    /\ result' = NoResult
    /\ pushed' = << >>
    /\ configured' = FALSE
    /\ sample' = [ir |-> 0, red |-> 0]
    /\ loop_elapsed' = 0
    /\ gate_elapsed' = 0
    /\ iter' = 0
    /\ nread' = 0
    /\ cur_bpm' = 0
    /\ cur_spo2' = 0
    /\ finger_detected_time' = 0
    /\ UNCHANGED <<monitor_vars, ret, wave, period, called, start_time,
                   bpm_samples, spo2_samples, sensor_open, stable_readings,
                   server_vars>>

NextRepeat ==
    \/ NextSession
    \/ NewRequest

SpecRepeat == InitRepeat /\ [][NextRepeat]_vars

(***************************************************************************)
(* The smoothing step of calculate_bpm on its own: the monitor holds any   *)
(* smoothed value it can hold, and every tick brings the same new_bpm.     *)
(***************************************************************************)
MaxTicks == 15         \* smoothing steps in one behaviour

ConstantBpm == 72000   \* new_bpm = 72.0 on every tick

BpmStep == 500         \* spacing of the smoothed values drawn

\* self.bpm is 0 until the first valid estimate, then stays in [40, 200]
HeldBpm ==
    {0, MaxBpm * Milli}
      \cup { MinBpm * Milli + k * BpmStep :
               k \in 0..(((MaxBpm - MinBpm) * Milli) \div BpmStep) }

InitSmoothing ==
    /\ buffer_size = DefaultBufferSize
    /\ ir_buffer = << >>
    /\ red_buffer = << >>
    /\ timestamps = << >>
    /\ bpm \in HeldBpm
    /\ spo2 = 0
    /\ now = 0
    /\ wave = Signal(0, 0, Shape(80, 0, 0), 0, Shape(80, 0, 0))
    /\ period = 0
    /\ ret = Ret("none", 0, "none")
    /\ pushed = << >>
    /\ called = {}
    /\ InitSessionVars

\* if 40 <= new_bpm <= 200: self.bpm = new_bpm if self.bpm == 0
\*                          else 0.7 * self.bpm + 0.3 * new_bpm
\* return int(self.bpm)
SmoothingTick ==
    /\ iter < MaxTicks
    /\ iter' = iter + 1
    /\ bpm' = IF MinBpm * Milli <= ConstantBpm /\ ConstantBpm <= MaxBpm * Milli
              THEN BlendBpm(bpm, ConstantBpm)
              ELSE bpm
    /\ ret' = Ret("calculate_bpm", IntOf(bpm'), "computed")
    /\ UNCHANGED <<buffer_size, ir_buffer, red_buffer, timestamps, spo2, now,
                   wave, period, pushed, called, pc, start_time, sample,
                   loop_elapsed, gate_elapsed, nread, cur_bpm, cur_spo2,
                   bpm_samples, spo2_samples, sensor_open, result, configured,
                   finger_detected_time, stable_readings, server_vars,
                   repeat_vars>>

NextSmoothing == SmoothingTick

SpecSmoothing == InitSmoothing /\ [][NextSmoothing]_vars

(***************************************************************************)
(* calculate_bpm on buffers built for its peak detection: a constant level *)
(* with two pulses, sampled at a constant rate.  A pulse is a strict       *)
(* maximum of the moving average, a plateau of it, or too low to pass the  *)
(* threshold; the first pulse may sit at the very start of the buffer; the *)
(* distance of the pulses gives intervals below, at, inside and above the  *)
(* limits 0.4 s and 2.0 s.                                                 *)
(***************************************************************************)
MaxLength == 32    \* buffered samples: MinSamples..MaxLength

PulseShapes == {"peak", "plateau", "low"}

PulseCentres == {3, 6}

PulseDistances == {8, 9, 20, 21}

SampleSpacings == {5, 10}

Rise(k) == IF k < 3 THEN 3 - k ELSE 0

\* the value a pulse of a shape centred at c adds to sample i
Pulse(shape, c, i) ==
    CASE shape = "peak" -> 10 * Rise(Abs(i - c))
      [] shape = "low" -> Rise(Abs(i - c))
      [] shape = "plateau" -> IF i <= c THEN 10 * Rise(c - i)
                              ELSE 10 * Rise(i - c - 1)

PulseSeries(len, c, d, s1, s2) ==
    [i \in 1..len |-> 10000 + Pulse(s1, c, i) + Pulse(s2, c + d, i)]

InitPeaks ==
    /\ buffer_size = DefaultBufferSize
    /\ \E len \in MinSamples..MaxLength, c \in PulseCentres,
          d \in PulseDistances, s1 \in PulseShapes \ {"low"},
          s2 \in PulseShapes, dt \in SampleSpacings :
          /\ ir_buffer = PulseSeries(len, c, d, s1, s2)
          /\ red_buffer = PulseSeries(len, c, d, s1, s2)
          /\ timestamps = [i \in 1..len |-> i * dt]
          /\ period = dt
          /\ now = len * dt
          /\ pushed = [i \in 1..len |->
                         <<PulseSeries(len, c, d, s1, s2)[i],
                           PulseSeries(len, c, d, s1, s2)[i], i * dt>>]
    /\ bpm = 0
    /\ spo2 = 0
    /\ wave = Signal(10000, 10000, Shape(50, 0, 0), 0, Shape(50, 0, 0))
    /\ ret = Ret("none", 0, "none")
    /\ called = {}
    /\ InitSessionVars

NextPeaks == CallCalculateBpm

SpecPeaks == InitPeaks /\ [][NextPeaks]_vars

(***************************************************************************)
(* The camera routes of api.py.  The server runs with threaded=True, so    *)
(* every request is served by its own thread; the threads share picam2,    *)
(* is_streaming and camera_lock.  A step is one read or write of a shared  *)
(* variable, or one call on the camera.  Every call on the camera can      *)
(* raise (the device is hardware); capture_array() can only answer on a    *)
(* camera that was started and not closed.  The generator of video_feed    *)
(* runs in the thread of its request until the stream ends.                *)
(***************************************************************************)
\* what the camera routes leave alone
camera_env == <<monitor_vars, now, wave, period, ret, pushed, called, pc,
                start_time, sample, loop_elapsed, gate_elapsed, iter, nread,
                cur_bpm, cur_spo2, bpm_samples, spo2_samples, sensor_open,
                result, configured, finger_detected_time, stable_readings,
                repeat_vars, thread_pc, thread_reads, bus_log>>

At(t, at) == cam_thread[t].at = at

Goto(t, at) == cam_thread' = [cam_thread EXCEPT ![t].at = at]

\* the route returns its response
Reply(t) == cam_thread' = [cam_thread EXCEPT ![t] = Idle]

\* with camera_lock: the lock can be taken
\* mutant: the lock never makes a thread wait
LockFree_Always == TRUE

LockFree == camera_lock = 0

\* picam2.capture_array(): the call is made by thread t
CaptureArray(t) ==
    captured' = [by |-> t, lock |-> camera_lock, ref |-> picam2,
                 state |-> camera]

\* capture_array() can return a frame
CanCapture == picam2 # "None" /\ camera = "started"

\* picam2.stop(); picam2.close() inside try: either both are done, or one
\* of them raised
StopAndClose == \E ok \in BOOLEAN : camera' = IF ok THEN "closed" ELSE camera

\* a request for one of the four camera routes arrives and gets its
\* thread, which starts at the first statement of the route (camera_stop is
\* stop_camera() and the reply)
Request(t) ==
    /\ cam_thread[t] = Idle
    /\ \E r \in {[h |-> "camera_start", at |-> "c_available"],
                [h |-> "camera_stop", at |-> "s_flag"],
                [h |-> "video_feed", at |-> "v_test"],
                [h |-> "capture", at |-> "p_test"]} :
         cam_thread' = [cam_thread EXCEPT ![t] = r]
    /\ UNCHANGED <<camera_env, camera_available, picam2, camera, camera_lock,
                   is_streaming, captured>>

\* where stop_camera returns to: camera_stop replies, camera_start goes on
\* to init_camera()
AfterStop(t) ==
    IF cam_thread[t].h = "camera_stop" THEN Reply(t) ELSE Goto(t, "i_available")

\* where init_camera returns to
AfterInit(t, ok) ==
    IF ~ok THEN Reply(t)
    ELSE CASE cam_thread[t].h = "camera_start" -> Goto(t, "c_set")
           [] cam_thread[t].h = "video_feed"   -> Goto(t, "v_set")
           [] cam_thread[t].h = "capture"      -> Goto(t, "p_lock")

\* POST /api/camera/start
camera_start(t) ==
    \/ \* camera_start: if not CAMERA_AVAILABLE: return 503
       /\ At(t, "c_available")
       /\ IF camera_available THEN Goto(t, "c_streaming") ELSE Reply(t)
       /\ UNCHANGED <<camera_env, camera_available, picam2, camera,
                      camera_lock, is_streaming,
                      captured>>
    \/ \* camera_start: if is_streaming: stop_camera(); time.sleep(0.5)
       /\ At(t, "c_streaming")
       /\ IF is_streaming THEN Goto(t, "s_flag") ELSE Goto(t, "i_available")
       /\ UNCHANGED <<camera_env, camera_available, picam2, camera,
                      camera_lock, is_streaming,
                      captured>>
    \/ \* camera_start: is_streaming = True; return
       /\ At(t, "c_set")
       /\ is_streaming' = TRUE
       /\ Reply(t)
       /\ UNCHANGED <<camera_env, camera_available, picam2, camera,
                      camera_lock, captured>>

\* stop_camera(), called by camera_stop and by camera_start
stop_camera(t) ==
    \/ \* stop_camera: is_streaming = False
       /\ At(t, "s_flag")
       /\ is_streaming' = FALSE
       /\ Goto(t, "s_lock")
       /\ UNCHANGED <<camera_env, camera_available, picam2, camera,
                      camera_lock, captured>>
    \/ \* stop_camera: with camera_lock:
       /\ At(t, "s_lock")
       /\ LockFree /\ camera_lock' = t
       /\ Goto(t, "s_test")
       /\ UNCHANGED <<camera_env, camera_available, picam2, camera,
                      is_streaming, captured>>
    \/ \* stop_camera: if picam2 is not None:
       /\ At(t, "s_test")
       /\ IF picam2 # "None"
            THEN Goto(t, "s_close") /\ UNCHANGED camera_lock
            ELSE camera_lock' = 0 /\ AfterStop(t)
       /\ UNCHANGED <<camera_env, camera_available, picam2, camera,
                      is_streaming, captured>>
    \/ \* stop_camera: picam2.stop(); picam2.close()
       /\ At(t, "s_close")
       /\ StopAndClose
       /\ Goto(t, "s_clear")
       /\ UNCHANGED <<camera_env, camera_available, picam2, camera_lock,
                      is_streaming, captured>>
    \/ \* stop_camera: finally: picam2 = None, and the end of the with block
       /\ At(t, "s_clear")
       /\ picam2' = "None"
       /\ camera_lock' = 0
       /\ AfterStop(t)
       /\ UNCHANGED <<camera_env, camera_available, camera, is_streaming,
                      captured>>

\* init_camera(), called by camera_start, video_feed and capture
init_camera(t) ==
    \/ \* init_camera: if not CAMERA_AVAILABLE: return False
       /\ At(t, "i_available")
       /\ IF camera_available THEN Goto(t, "i_lock") ELSE AfterInit(t, FALSE)
       /\ UNCHANGED <<camera_env, camera_available, picam2, camera,
                      camera_lock, is_streaming,
                      captured>>
    \/ \* init_camera: with camera_lock:
       /\ At(t, "i_lock")
       /\ LockFree /\ camera_lock' = t
       /\ Goto(t, "i_test")
       /\ UNCHANGED <<camera_env, camera_available, picam2, camera,
                      is_streaming, captured>>
    \/ \* init_camera: if picam2 is not None:
       /\ At(t, "i_test")
       /\ IF picam2 # "None" THEN Goto(t, "i_probe") ELSE Goto(t, "i_new")
       /\ UNCHANGED <<camera_env, camera_available, picam2, camera,
                      camera_lock, is_streaming,
                      captured>>
    \/ \* init_camera: picam2.capture_array(); return True, or except:
       /\ At(t, "i_probe")
       /\ CaptureArray(t)
       /\ \/ CanCapture /\ camera_lock' = 0 /\ AfterInit(t, TRUE)
          \/ Goto(t, "i_restart") /\ UNCHANGED camera_lock
       /\ UNCHANGED <<camera_env, camera_available, picam2, camera,
                      is_streaming>>
    \/ \* init_camera: try: picam2.stop(); picam2.close() except: pass
       /\ At(t, "i_restart")
       /\ StopAndClose
       /\ Goto(t, "i_drop")
       /\ UNCHANGED <<camera_env, camera_available, picam2, camera_lock,
                      is_streaming, captured>>
    \/ \* init_camera: picam2 = None
       /\ At(t, "i_drop")
       /\ picam2' = "None"
       /\ Goto(t, "i_new")
       /\ UNCHANGED <<camera_env, camera_available, camera, camera_lock,
                      is_streaming, captured>>
    \/ \* init_camera: picam2 = Picamera2()
       /\ At(t, "i_new")
       /\ \/ picam2' = "Picamera2" /\ camera' = "created" /\ Goto(t, "i_start")
          \/ UNCHANGED <<picam2, camera>> /\ Goto(t, "i_cleanup")
       /\ UNCHANGED <<camera_env, camera_available, camera_lock,
                      is_streaming, captured>>
    \/ \* init_camera: picam2.configure(config_cam); picam2.start() and the waits
       /\ At(t, "i_start")
       /\ \/ camera' = "started" /\ Goto(t, "i_capture")
          \/ UNCHANGED camera /\ Goto(t, "i_cleanup")
       /\ UNCHANGED <<camera_env, camera_available, picam2, camera_lock,
                      is_streaming, captured>>
    \/ \* init_camera: test_frame = picam2.capture_array(); return True
       /\ At(t, "i_capture")
       /\ CaptureArray(t)
       /\ \/ CanCapture /\ camera_lock' = 0 /\ AfterInit(t, TRUE)
          \/ Goto(t, "i_cleanup") /\ UNCHANGED camera_lock
       /\ UNCHANGED <<camera_env, camera_available, picam2, camera,
                      is_streaming>>
    \/ \* init_camera, except Exception: if picam2 is not None: stop and close
       /\ At(t, "i_cleanup")
       /\ IF picam2 # "None" THEN StopAndClose ELSE UNCHANGED camera
       /\ Goto(t, "i_forget")
       /\ UNCHANGED <<camera_env, camera_available, picam2, camera_lock,
                      is_streaming, captured>>
    \/ \* init_camera, except Exception: picam2 = None; return False
       /\ At(t, "i_forget")
       /\ picam2' = "None"
       /\ camera_lock' = 0
       /\ AfterInit(t, FALSE)
       /\ UNCHANGED <<camera_env, camera_available, camera, is_streaming,
                      captured>>

\* GET /api/video_feed
video_feed(t) ==
    \/ \* video_feed: if picam2 is None: if not init_camera(): return 500
       /\ At(t, "v_test")
       /\ IF picam2 = "None" THEN Goto(t, "i_available") ELSE Goto(t, "v_set")
       /\ UNCHANGED <<camera_env, camera_available, picam2, camera,
                      camera_lock, is_streaming,
                      captured>>
    \/ \* video_feed: is_streaming = True; return Response(generate_frames())
       /\ At(t, "v_set")
       /\ is_streaming' = TRUE
       /\ Goto(t, "g_while")
       /\ UNCHANGED <<camera_env, camera_available, picam2, camera,
                      camera_lock, captured>>

\* generate_frames(), the body of the response of video_feed
generate_frames(t) ==
    \/ \* generate_frames: while is_streaming:
       /\ At(t, "g_while")
       /\ IF is_streaming THEN Goto(t, "g_test") ELSE Reply(t)
       /\ UNCHANGED <<camera_env, camera_available, picam2, camera,
                      camera_lock, is_streaming,
                      captured>>
    \/ \* generate_frames: if picam2 is None: break
       /\ At(t, "g_test")
       /\ IF picam2 = "None" THEN Reply(t) ELSE Goto(t, "g_lock")
       /\ UNCHANGED <<camera_env, camera_available, picam2, camera,
                      camera_lock, is_streaming,
                      captured>>
    \/ \* generate_frames: with camera_lock:
       /\ At(t, "g_lock")
       /\ LockFree /\ camera_lock' = t
       /\ Goto(t, "g_locked")
       /\ UNCHANGED <<camera_env, camera_available, picam2, camera,
                      is_streaming, captured>>
    \/ \* generate_frames: if picam2 is None: break
       /\ At(t, "g_locked")
       /\ IF picam2 = "None"
            THEN camera_lock' = 0 /\ Reply(t)
            ELSE Goto(t, "g_capture") /\ UNCHANGED camera_lock
       /\ UNCHANGED <<camera_env, camera_available, picam2, camera,
                      is_streaming, captured>>
    \/ \* generate_frames: frame = picam2.capture_array(); its exception ends the
       \* stream
       /\ At(t, "g_capture")
       /\ CaptureArray(t)
       /\ camera_lock' = 0
       /\ \/ CanCapture /\ Goto(t, "g_yield")
          \/ Reply(t)
       /\ UNCHANGED <<camera_env, camera_available, picam2, camera,
                      is_streaming>>
    \/ \* generate_frames: yield the frame and time.sleep(0.033), or continue; the
       \* stream also ends here when the client goes away
       /\ At(t, "g_yield")
       /\ \/ Goto(t, "g_while")
          \/ Reply(t)
       /\ UNCHANGED <<camera_env, camera_available, picam2, camera,
                      camera_lock, is_streaming,
                      captured>>

\* POST /api/capture, up to the captured frame
capture(t) ==
    \/ \* capture: if picam2 is None: if not init_camera(): return 500
       /\ At(t, "p_test")
       /\ IF picam2 = "None" THEN Goto(t, "i_available") ELSE Goto(t, "p_lock")
       /\ UNCHANGED <<camera_env, camera_available, picam2, camera,
                      camera_lock, is_streaming,
                      captured>>
    \/ \* capture: with camera_lock:
       /\ At(t, "p_lock")
       /\ LockFree /\ camera_lock' = t
       /\ Goto(t, "p_locked")
       /\ UNCHANGED <<camera_env, camera_available, picam2, camera,
                      is_streaming, captured>>
    \/ \* capture: if picam2 is None: return 500
       /\ At(t, "p_locked")
       /\ IF picam2 = "None"
            THEN camera_lock' = 0 /\ Reply(t)
            ELSE Goto(t, "p_capture") /\ UNCHANGED camera_lock
       /\ UNCHANGED <<camera_env, camera_available, picam2, camera,
                      is_streaming, captured>>
    \/ \* capture: frame = picam2.capture_array(); the image is written and the
       \* route replies (its exception ends in the 500 reply)
       /\ At(t, "p_capture")
       /\ CaptureArray(t)
       /\ camera_lock' = 0
       /\ Reply(t)
       /\ UNCHANGED <<camera_env, camera_available, picam2, camera,
                      is_streaming>>

InitCamera ==
    /\ NewMonitor(DefaultBufferSize)
    /\ now = 0
    /\ wave = DeadBus
    /\ period = 0
    /\ ret = Ret("none", 0, "none")
    /\ pushed = << >>
    /\ called = {}
    /\ IdleProcess
    /\ camera_available \in BOOLEAN

NextCamera ==
    \E t \in CameraThreads :
        \/ Request(t)
        \/ camera_start(t)
        \/ stop_camera(t)
        \/ init_camera(t)
        \/ video_feed(t)
        \/ generate_frames(t)
        \/ capture(t)

SpecCamera == InitCamera /\ [][NextCamera]_vars

(***************************************************************************)
(* Properties                                                              *)
(***************************************************************************)
Column(rows, k) == [i \in 1..Len(rows) |-> rows[i][k]]

\* C1: after pushing N+k samples into a monitor of capacity N, ir_buffer,
\* red_buffer and timestamps each hold exactly the last N pushed values,
\* oldest first (so each push past capacity evicted only the oldest entry).
C1_BufferEviction ==
    LET kept == IF Len(pushed) <= buffer_size THEN pushed
                ELSE SubSeq(pushed, Len(pushed) - buffer_size + 1, Len(pushed))
    IN  /\ ir_buffer  = Column(kept, 1)
        /\ red_buffer = Column(kept, 2)
        /\ timestamps = Column(kept, 3)

\* C1 witness: two samples were pushed past capacity
C1_Witness ==
    /\ Len(pushed) = buffer_size + 2
    /\ Len(ir_buffer) = buffer_size
    /\ timestamps[1] = pushed[3][3]

\* C2: the three buffers always have the same length, at most N, and the
\* buffered timestamps are non-decreasing in arrival order.
C2_ParallelBuffers ==
    /\ Len(ir_buffer) = Len(red_buffer)
    /\ Len(red_buffer) = Len(timestamps)
    /\ Len(timestamps) <= buffer_size
    /\ \A i \in 1..Len(timestamps) : \A j \in i..Len(timestamps) :
          timestamps[i] <= timestamps[j]

\* C2 witness: a full buffer that has already evicted an entry
C2_Witness ==
    /\ Len(pushed) > buffer_size
    /\ Len(timestamps) = buffer_size
    /\ timestamps[1] < timestamps[buffer_size]

\* the sum of the ir values of the ten most recently buffered samples
RecentIrTotal ==
    LET n == Len(ir_buffer)
    IN  ir_buffer[n] + ir_buffer[n-1] + ir_buffer[n-2] + ir_buffer[n-3]
        + ir_buffer[n-4] + ir_buffer[n-5] + ir_buffer[n-6] + ir_buffer[n-7]
        + ir_buffer[n-8] + ir_buffer[n-9]

\* C3: is_finger_detected returns false with fewer than 10 buffered samples;
\* with 10 or more it returns true iff the mean of the last 10 ir values is
\* strictly greater than 10000; and the call leaves the monitor unchanged.
C3_FingerThreshold ==
    /\ [](ret.op = "is_finger_detected" =>
            /\ (Len(ir_buffer) < 10 => ret.val = FALSE)
            /\ (Len(ir_buffer) >= 10 => (ret.val <=> RecentIrTotal > 100000)))
    /\ [][("is_finger_detected" \in called' /\ "is_finger_detected" \notin called)
            => UNCHANGED <<monitor_vars, pushed>>]_vars

\* C3 witness: ten or more samples whose mean is exactly 10000, answered false
C3_Witness ==
    /\ ret.op = "is_finger_detected"
    /\ Len(ir_buffer) >= 10
    /\ RecentIrTotal = 100000
    /\ ret.val = FALSE

\* C4: the smoothed BPM is 0 or lies in [40, 200], and every value returned
\* by calculate_bpm is 0 or an integer in [40, 200].
C4_BpmBounds ==
    /\ (bpm = 0 \/ (40 * Milli <= bpm /\ bpm <= 200 * Milli))
    /\ (ret.op = "calculate_bpm" =>
          \/ ret.val = 0
          \/ (ret.val % Milli = 0 /\ 40 * Milli <= ret.val /\ ret.val <= 200 * Milli))

\* C4 witness: calculate_bpm returned a nonzero value while the smoothed
\* value is a blend that is not a whole number
C4_Witness ==
    /\ ret.op = "calculate_bpm"
    /\ ret.val > 0
    /\ bpm % Milli # 0

\* C5: the smoothed SpO2 is 0 or lies in [70, 100], and every value returned
\* by calculate_spo2 is 0 or within [70, 100].
C5_Spo2Bounds ==
    /\ (spo2 = 0 \/ (70 * Milli <= spo2 /\ spo2 <= 100 * Milli))
    /\ (ret.op = "calculate_spo2" =>
          \/ ret.val = 0
          \/ (70 * Milli <= ret.val /\ ret.val <= 100 * Milli))

\* C5 witness: calculate_spo2 returned a nonzero value after a blend
C5_Witness ==
    /\ ret.op = "calculate_spo2"
    /\ ret.val > 0
    /\ spo2 % Milli # 0
    /\ "calculate_bpm" \in called

\* C6: with fewer than 30 buffered samples calculate_bpm and calculate_spo2
\* return the integer-truncated smoothed value and leave the smoothed state
\* unchanged.
C6_ShortBuffer ==
    /\ []((ret.op = "calculate_bpm" /\ Len(ir_buffer) < 30) => ret.val = IntOf(bpm))
    /\ []((ret.op = "calculate_spo2" /\ Len(ir_buffer) < 30) => ret.val = IntOf(spo2))
    /\ [][(Len(ir_buffer) < 30 /\ called' # called /\ called' # {})
            => (bpm' = bpm /\ spo2' = spo2)]_vars

\* C6 witness: calculate_spo2 was called on a buffer of 29 samples
C6_Witness ==
    /\ ret.op = "calculate_spo2"
    /\ ret.path = "short"
    /\ Len(ir_buffer) = 29
    /\ "calculate_bpm" \in called

AllEqual(data) == \A i \in 1..Len(data) : data[i] = data[1]

AllZero(data) == \A i \in 1..Len(data) : data[i] = 0

\* a buffer whose ir mean, red mean or ir standard deviation is zero
Degenerate ==
    AllEqual(ir_buffer) \/ AllZero(ir_buffer) \/ AllZero(red_buffer)

\* C7: with 30 or more samples and a zero DC in either channel or a zero ir
\* AC, calculate_spo2 takes the guard (no division, no fault), returns the
\* prior smoothed SpO2 and leaves it unchanged.
C7_ZeroGuard ==
    /\ []((ret.op = "calculate_spo2" /\ Len(ir_buffer) >= 30 /\ Degenerate)
            => (ret.path = "guard" /\ ret.val = spo2))
    /\ [][(pc = "spo2" /\ Len(ir_buffer) >= 30 /\ Degenerate) => spo2' = spo2]_vars

\* C7 witness: the guard returned a smoothed SpO2 set earlier in the session,
\* on a buffer of identical ir values
C7_Witness ==
    /\ ret.op = "calculate_spo2"
    /\ ret.path = "guard"
    /\ spo2 > 0
    /\ ret.val = spo2
    /\ AllEqual(ir_buffer)

InLoop == pc \in {"loop", "read", "gate", "add", "finger", "bpm", "spo2",
                  "filter", "sleep"}

\* C8 (as stated): every raw sample read successfully is pushed to the
\* buffer, also during the warm-up.
C8_WarmupSamplesPushed ==
    pc = "sleep" => Len(pushed) = nread

\* C8 (amended): while the elapsed time has not passed the warm-up nothing
\* is pushed; the buffer is empty when the first measuring tick pushes.
C8_WarmupSamplesDiscarded ==
    (InLoop /\ now - start_time <= WARMUP) =>
        (pushed = << >> /\ ir_buffer = << >> /\ red_buffer = << >>
         /\ timestamps = << >>)

\* C8 witness: the last tick of the warm-up, after many successful reads
C8_Witness ==
    /\ pc = "sleep"
    /\ now - start_time = WARMUP
    /\ nread >= 50
    /\ pushed = << >>

\* C9: a candidate is added to bpm_samples or spo2_samples only on a tick
\* that passed the while test (elapsed < duration) and whose elapsed time
\* exceeds the warm-up.
C9_NoWarmupCandidates ==
    [][(bpm_samples' # bpm_samples \/ spo2_samples' # spo2_samples) =>
         (/\ pc = "filter"
          /\ now - start_time > WARMUP
          /\ loop_elapsed < DURATION
          /\ loop_elapsed <= now - start_time)]_vars

\* C9 witness: candidates collected in both lists
C9_Witness ==
    /\ Len(bpm_samples) >= 5
    /\ Len(spo2_samples) >= 5
    /\ pc = "sleep"

\* the phase of the session, as the code has observed it
Phase ==
    IF pc \in {"idle", "check", "setup"} THEN "IDLE"
    ELSE IF pc = "failed" THEN (IF LoopContinues(loop_elapsed) THEN "IDLE" ELSE "DONE")
    ELSE IF InLoop THEN (IF gate_elapsed > WARMUP THEN "MEASURING" ELSE "WARMUP")
    ELSE "DONE"

Rank(ph) ==
    CASE ph = "IDLE" -> 0 [] ph = "WARMUP" -> 1 [] ph = "MEASURING" -> 2
      [] ph = "DONE" -> 3

\* C10: the session moves through IDLE, WARMUP, MEASURING, DONE in that
\* order and never backwards; WARMUP starts with the session, MEASURING
\* only after the warm-up has elapsed, DONE only after the duration has
\* elapsed, and the result is computed only in DONE.
C10_PhaseOrder ==
    /\ [][Rank(Phase') >= Rank(Phase)]_vars
    /\ [][(pc = "setup" /\ pc' = "loop") => Phase' = "WARMUP"]_vars
    /\ [](Phase = "MEASURING" => now - start_time > WARMUP)
    /\ [](Phase = "DONE" => now - start_time >= DURATION)
    /\ [](result.status = "ok" => Phase = "DONE")
    /\ []((InLoop /\ (Len(pushed) > 0 \/ pc = "add")) => Phase = "MEASURING")

\* C10 witness: a computed result at the end of a session that measured
C10_Witness ==
    /\ pc = "done"
    /\ result.status = "ok"
    /\ result.heart_rate > 0
    /\ Len(pushed) > DefaultBufferSize

\* the session has returned a result
Returned == pc \in {"done", "failed", "w_done", "w_failed"}

\* the result carries an error text (a failure indication)
HasError(r) == r.status \notin {"ok", "none"}

\* C11 (as stated): a measuring tick adds a candidate iff the finger is
\* present and both estimates are nonzero, as one pair, so there are always
\* as many BPM candidates as SpO2 candidates.
C11_PairedCandidates ==
    /\ [](Len(bpm_samples) = Len(spo2_samples))
    /\ [][pc = "filter" =>
            IF cur_bpm # 0 /\ cur_spo2 # 0
            THEN /\ bpm_samples' = Append(bpm_samples, cur_bpm)
                 /\ spo2_samples' = Append(spo2_samples, cur_spo2)
            ELSE UNCHANGED <<bpm_samples, spo2_samples>>]_vars

\* C11 (amended): read_sensor_data adds one (bpm, spo2) pair on exactly the
\* ticks with a finger present and both estimates above 0.  read_sensor, on
\* a measuring tick with a finger present, adds the BPM iff 40 < bpm < 200
\* and, independently, the SpO2 iff 80 < spo2 < 100, to two separate lists.
\* Nothing else adds a candidate.
C11_CandidateRules ==
    /\ [][pc = "w_filter" =>
            stable_readings' =
                IF cur_bpm > 0 /\ cur_spo2 > 0
                THEN stable_readings \o <<[bpm |-> cur_bpm, spo2 |-> cur_spo2]>>
                ELSE stable_readings]_vars
    /\ [][pc = "filter" =>
            /\ bpm_samples' =
                  IF 40000 < cur_bpm /\ cur_bpm < 200000
                  THEN bpm_samples \o <<cur_bpm>> ELSE bpm_samples
            /\ spo2_samples' =
                  IF 80000 < cur_spo2 /\ cur_spo2 < 100000
                  THEN spo2_samples \o <<cur_spo2>> ELSE spo2_samples]_vars
    /\ [][(pc \notin {"w_filter", "w_setup"}) =>
            stable_readings' = stable_readings]_vars
    /\ [][(pc \notin {"filter", "setup"}) =>
            UNCHANGED <<bpm_samples, spo2_samples>>]_vars
    /\ [](pc \in {"filter", "w_filter"} =>
            /\ Len(ir_buffer) >= 10
            /\ RecentIrTotal > 100000
            /\ ret.op = "calculate_spo2"
            /\ cur_spo2 = ret.val
            /\ cur_bpm \in {0, IntOf(bpm)})
    /\ [][(pc \in {"finger", "w_finger"} /\ ~ret'.val) =>
            pc' \in {"sleep", "w_sleep"}]_vars

\* C11 witness: a read_sensor session that has collected different numbers
\* of BPM and SpO2 candidates
C11_Witness ==
    /\ pc = "sleep"
    /\ Len(bpm_samples) >= 5
    /\ Len(spo2_samples) > Len(bpm_samples)

PlainMean(values) == ((Sum(values) \div Len(values)) \div 1000) * 1000

Position(values, i) ==
    Cardinality({j \in 1..Len(values) :
                   values[j] < values[i] \/ (values[j] = values[i] /\ j < i)}) + 1

\* the indices that survive dropping the floor(n/5) lowest and highest
Kept(values) ==
    LET n == Len(values)
        k == n \div 5
        all == [i \in 1..n |-> i]
    IN  IF k = 0 \/ n <= 2 THEN all
        ELSE SelectSeq(all, LAMBDA i : k < Position(values, i)
                                       /\ Position(values, i) <= n - k)

\* the integer-truncated mean of the surviving entries, 0 for no entries
ExpectedTrimmedMean(values) ==
    IF values = << >> THEN 0
    ELSE LET kept == Kept(values)
         IN  PlainMean([j \in 1..Len(kept) |-> values[kept[j]]])

\* the last ten entries of a list of pairs, one field of each
LastTen(pairs, key) ==
    LET n == Len(pairs)
        first == IF n > 10 THEN n - 9 ELSE 1
    IN  [i \in 1..(n - first + 1) |-> pairs[first + i - 1][key]]

\* C14 (as stated): the final heart_rate and spo2 of a valid session are
\* each the integer-truncated mean of the sorted candidates without the
\* floor(count/5) lowest and highest (untrimmed when that is 0 or
\* count <= 2), in read_sensor and in read_sensor_data.
C14_TrimmedMeanEverywhere ==
    /\ pc = "done" =>
          /\ result.heart_rate = ExpectedTrimmedMean(bpm_samples)
          /\ result.spo2 = ExpectedTrimmedMean(spo2_samples)
    /\ (pc = "w_done" /\ result.status = "ok") =>
          /\ result.heart_rate =
                ExpectedTrimmedMean(LastTen(stable_readings, "bpm"))
          /\ result.spo2 =
                ExpectedTrimmedMean(LastTen(stable_readings, "spo2"))

\* C14 (amended): read_sensor computes heart_rate and spo2 independently as
\* that trimmed mean (for 60..68, 150 in any order: 62..67 remain, result
\* 64; from 5 candidates on the lowest and the highest entry are dropped);
\* read_sensor_data returns the integer-truncated plain mean of the last
\* 10 pairs, neither sorted nor trimmed.
C14_TrimmedMean ==
    /\ pc = "done" =>
          /\ result.heart_rate = ExpectedTrimmedMean(bpm_samples)
          /\ result.spo2 = ExpectedTrimmedMean(spo2_samples)
          /\ ({bpm_samples[i] : i \in 1..Len(bpm_samples)}
                 = {60000, 61000, 62000, 63000, 64000, 65000, 66000, 67000,
                    68000, 150000}
               /\ Len(bpm_samples) = 10) => result.heart_rate = 64000
          /\ Len(bpm_samples) >= 5 =>
                /\ result.heart_rate <= MaxFrom(bpm_samples, 1)
                /\ result.heart_rate * (Len(bpm_samples) - 2 * (Len(bpm_samples) \div 5))
                     <= Sum(bpm_samples) - MaxFrom(bpm_samples, 1)
                          - MinFrom(bpm_samples, 1)
                          - (2 * (Len(bpm_samples) \div 5) - 2) * MinFrom(bpm_samples, 1)
    /\ (pc = "w_done" /\ result.status = "ok") =>
          /\ result.heart_rate = PlainMean(LastTen(stable_readings, "bpm"))
          /\ result.spo2 = PlainMean(LastTen(stable_readings, "spo2"))

\* C14 witness: read_sensor has averaged 150, 68, 60, 67, 61, 66, 62, 65,
\* 63, 64 to 64
C14_Witness ==
    /\ pc = "done"
    /\ bpm_samples = <<150000, 68000, 60000, 67000, 61000, 66000, 62000,
                        65000, 63000, 64000>>
    /\ result.heart_rate = 64000
    /\ spo2_samples = <<81000, 99000, 95300, 95300, 90000, 96000>>
    /\ result.spo2 = 94000

\* a read_fifo call that raised: the session was at a read and left it
\* without a new sample
ReadFailed == pc \in {"read", "w_read"} /\ pc' # pc /\ nread' = nread

\* C15: when a raw read fails in mid-session the tick is skipped (nothing is
\* pushed, the estimator state and the candidate lists are unchanged) and
\* the session goes on with its loop, in read_sensor and in
\* read_sensor_data.
C15_FailedReadSkipped ==
    [][ReadFailed =>
         /\ UNCHANGED <<monitor_state, bpm_samples, spo2_samples,
                        stable_readings, result>>
         /\ pc' \in {"loop", "w_loop"}]_vars

\* C15 for read_sensor alone, whose inner try wraps the loop body
C15_ApiFailedReadSkipped ==
    [][(ReadFailed /\ pc = "read") =>
         /\ UNCHANGED <<monitor_state, bpm_samples, spo2_samples, result>>
         /\ pc' = "loop"]_vars

\* a read of read_sensor_data failed and ended the session with the bus open
C15_Witness ==
    /\ pc = "w_failed"
    /\ result.status = "exception"
    /\ iter \in FaultIters
    /\ sensor_open

\* C16: a session whose check_sensor answered false has returned at once
\* with heart_rate 0, spo2 0 and an error, the device never configured, no
\* sample read, no loop iteration begun and nothing given to a monitor.
C16_NotDetectedReturnsAtOnce ==
    result.status \in {"Sensor not detected", "Sensor not found"} =>
        /\ Returned
        /\ HasError(result)
        /\ result.heart_rate = 0
        /\ result.spo2 = 0
        /\ ~configured
        /\ nread = 0
        /\ iter = 0
        /\ pushed = << >>
        /\ now = 0

\* C16 witness: read_sensor has returned "Sensor not detected" on an opened,
\* unconfigured device
C16_Witness ==
    /\ pc = "failed"
    /\ result.status = "Sensor not detected"
    /\ sensor_open
    /\ ~configured
    /\ nread = 0

\* C17: whatever fails (constructor, check_sensor, setup, any read_fifo,
\* close), no exception leaves read_sensor or read_sensor_data, and what
\* they return carries an integer heart_rate and an integer spo2.
C17_NoExceptionEscapes ==
    /\ pc # "escaped"
    /\ Returned =>
          /\ result.status # "none"
          /\ result.heart_rate >= 0
          /\ result.spo2 >= 0
          /\ result.heart_rate % Milli = 0
          /\ result.spo2 % Milli = 0

\* C17 witness: close raised after a full session of read_sensor with
\* candidates collected, and the function returned zeros with the error
C17_Witness ==
    /\ pc = "failed"
    /\ result.status = "exception"
    /\ ~LoopContinues(loop_elapsed)
    /\ Len(bpm_samples) >= 5
    /\ result.heart_rate = 0
    /\ result.spo2 = 0

\* C18: at most one sensor session is active at any time, and the reads the
\* device serves are never interleaved between two sessions: once it has
\* served another session, it never serves the earlier one again.
C18_OneActiveSession ==
    /\ Cardinality({t \in Threads : thread_pc[t] \in InSession}) <= 1
    /\ \A i, j, k \in 1..Len(bus_log) :
          (i < j /\ j < k /\ bus_log[i] = bus_log[k]) => bus_log[j] = bus_log[i]

\* two request threads are inside read_sensor and the device has served
\* their reads alternately
C18_Witness ==
    /\ \A t \in Threads : thread_pc[t] \in InSession
    /\ Len(bus_log) >= 3
    /\ bus_log[1] # bus_log[2]
    /\ bus_log[1] = bus_log[3]

\* the running session has given its monitor the samples the first session
\* gave its own, at the same times after the session's start
SameReads ==
    /\ Len(pushed) = Len(first_run.pushed)
    /\ \A i \in 1..Len(pushed) :
          /\ pushed[i][1] = first_run.pushed[i][1]
          /\ pushed[i][2] = first_run.pushed[i][2]
          /\ pushed[i][3] - start_time
               = first_run.pushed[i][3] - first_run.start_time

\* C19: a session starts with a monitor and candidate lists of its own, so
\* its result depends on its own reads and their times only: a later session
\* of the process that had the reads of the first one has its candidates and
\* its result, whatever the first one left behind.
C19_FreshPerSession ==
    /\ (pc = "loop" /\ iter = 0) =>
          /\ ir_buffer = << >> /\ red_buffer = << >> /\ timestamps = << >>
          /\ bpm = 0 /\ spo2 = 0
          /\ bpm_samples = << >> /\ spo2_samples = << >>
    /\ (session_no > 1 /\ pc = "done" /\ first_run.result.status = "ok"
          /\ SameReads) =>
          /\ bpm_samples = first_run.bpm_samples
          /\ spo2_samples = first_run.spo2_samples
          /\ result = first_run.result

\* C19 witness: the second session of a process has returned a measured
\* heart rate from the reads the first one had
C19_Witness ==
    /\ session_no = 2
    /\ pc = "done"
    /\ first_run.result.status = "ok"
    /\ SameReads
    /\ Len(pushed) > DefaultBufferSize
    /\ Len(bpm_samples) >= 5
    /\ result.heart_rate > 0

\* the smoothed BPM is within 1 unit of the constant new_bpm
NearConstant == Abs(bpm - ConstantBpm) <= Milli

\* C20 (as stated): with new_bpm = 72 on every tick the smoothed BPM is
\* within 1 unit of 72 after 10 ticks, from 0 or any value in [40, 200].
C20_WithinTenTicks == iter >= 10 => NearConstant

\* C20 (amended): with new_bpm = 72 on every tick the smoothed BPM is within
\* 1 unit of 72 after 14 ticks, from 0 or any value in [40, 200], and it
\* never leaves [40, 200] on the way.
C20_WithinFourteenTicks ==
    /\ iter >= 14 => NearConstant
    /\ iter >= 1 => (MinBpm * Milli <= bpm /\ bpm <= MaxBpm * Milli)

\* C20 witness: 14 ticks have brought a high smoothed value to less than
\* 1 unit above 72, which 13 ticks had not
C20_Witness ==
    /\ iter = 14
    /\ NearConstant
    /\ (10 * bpm - 3 * ConstantBpm) \div 7 > ConstantBpm + Milli

\* the buffered samples yield a new_bpm outside [40, 200]
NewBpmOutOfRange ==
    /\ Len(ir_buffer) >= MinSamples
    /\ LET peaks == Peaks(Smoothed(ir_buffer))
           iv    == IF Len(peaks) >= 2 THEN PeakIntervals(peaks, timestamps)
                    ELSE << >>
       IN  Len(iv) > 0
           /\ (6000 * Len(iv) < MinBpm * Sum(iv) \/ 6000 * Len(iv) > MaxBpm * Sum(iv))

\* the buffered samples yield a spo2 outside [70, 100]
NewSpo2OutOfRange ==
    /\ Len(ir_buffer) >= MinSamples
    /\ ~ZeroGuard(ir_buffer, red_buffer)
    /\ (RawSpo2(ir_buffer, red_buffer) < MinSpo2 * Milli
          \/ RawSpo2(ir_buffer, red_buffer) > MaxSpo2 * Milli)

\* C21: on a tick whose newly computed BPM (SpO2) is outside [40, 200]
\* ([70, 100]) the smoothed BPM (SpO2) stays as it is and the tick adds no
\* candidate for that quantity to the session's results.
C21_OutOfRangeTickIgnored ==
    [][/\ (pc \in {"bpm", "w_bpm"} /\ NewBpmOutOfRange) => bpm' = bpm
       /\ (pc \in {"spo2", "w_spo2"} /\ NewSpo2OutOfRange) => spo2' = spo2
       /\ (pc \in {"filter", "w_filter"} /\ NewBpmOutOfRange) =>
             (bpm_samples' = bpm_samples /\ stable_readings' = stable_readings)
       /\ (pc \in {"filter", "w_filter"} /\ NewSpo2OutOfRange) =>
             (spo2_samples' = spo2_samples /\ stable_readings' = stable_readings)
      ]_vars

\* C21, the part about the smoothed state alone
C21_SmoothedStateKept ==
    [][/\ (pc \in {"bpm", "w_bpm"} /\ NewBpmOutOfRange) => bpm' = bpm
       /\ (pc \in {"spo2", "w_spo2"} /\ NewSpo2OutOfRange) => spo2' = spo2
      ]_vars

\* C22: a session that opened the sensor device has closed it when it
\* returns its result, on every exit path.
C22_ClosedOnEveryExit == Returned => ~sensor_open

\* C22 on the normal path alone: a session that returns a computed result
\* has closed the device
C22_ClosedOnCompletion ==
    (pc \in {"done", "w_done"} /\ result.status # "none") => ~sensor_open

\* five times the moving average of the buffered ir values at position i
Average5(i) ==
    ir_buffer[i] + ir_buffer[i + 1] + ir_buffer[i + 2] + ir_buffer[i + 3]
      + ir_buffer[i + 4]

\* the positions of the moving average that are beats
BeatSet ==
    LET n   == Len(ir_buffer) - 4
        all == {Average5(i) : i \in 1..n}
        top == CHOOSE v \in all : \A u \in all : u <= v
        low == CHOOSE v \in all : \A u \in all : v <= u
        tot == Sum([i \in 1..n |-> Average5(i)])
    IN  {i \in 2..(n - 1) :
            /\ Average5(i) > Average5(i - 1)
            /\ Average5(i) > Average5(i + 1)
            /\ 10 * n * Average5(i) > 10 * tot + 3 * n * (top - low)}

\* the pairs of consecutive beats whose distance in time is strictly
\* between 0.4 s and 2.0 s
BeatPairs ==
    {p \in BeatSet \X BeatSet :
        /\ p[1] < p[2]
        /\ \A k \in BeatSet : ~(p[1] < k /\ k < p[2])
        /\ timestamps[p[2]] - timestamps[p[1]] > 40
        /\ timestamps[p[2]] - timestamps[p[1]] < 200}

RECURSIVE TotalTime(_)
\* the sum of the distances in time of a set of pairs of positions
TotalTime(pairs) ==
    IF pairs = {} THEN 0
    ELSE LET p == CHOOSE q \in pairs : TRUE
         IN  timestamps[p[2]] - timestamps[p[1]] + TotalTime(pairs \ {p})

\* 60 / (mean of the distances), in thousandths
BeatRate == (6000 * 1000 * Cardinality(BeatPairs)) \div TotalTime(BeatPairs)

\* a step that is a call of calculate_bpm on at least 30 samples
BpmCall ==
    /\ pc = "api"
    /\ "calculate_bpm" \notin called
    /\ "calculate_bpm" \in called'
    /\ Len(ir_buffer) >= 30

\* C23: calculate_bpm sets the smoothed BPM to new_bpm at the first in-range
\* estimate and to 0.7 * smoothed + 0.3 * new_bpm at every later one; with
\* no valid inter-beat interval the smoothed BPM stays as it is; the call
\* returns the integer truncation of the smoothed BPM.
C23_SmoothingRule ==
    [][BpmCall =>
         /\ BeatPairs = {} => bpm' = bpm
         /\ (BeatPairs # {} /\ 40000 <= BeatRate /\ BeatRate <= 200000) =>
               /\ bpm = 0 => bpm' = BeatRate
               /\ bpm # 0 => bpm' = (7 * bpm + 3 * BeatRate) \div 10
         /\ ret'.val = (bpm' \div 1000) * 1000]_vars

\* C23 witness: calculate_bpm has blended estimates on a buffer that has
\* already evicted samples and returned the truncated value
C23_Witness ==
    /\ ret.op = "calculate_bpm"
    /\ Len(pushed) > buffer_size
    /\ bpm > 0
    /\ ret.val # bpm
    /\ ret.val = (bpm \div 1000) * 1000

\* C24: a position of the moving average is a beat only if it is strictly
\* above both neighbours and strictly above mean + 0.3 * (max - min), so
\* plateaus and the two end positions are never beats; only the intervals
\* of consecutive beats strictly inside (0.4 s, 2.0 s) make new_bpm, and
\* intervals of exactly 0.4 s or 2.0 s are discarded.  On a fresh monitor
\* calculate_bpm therefore leaves 0 without such an interval and otherwise
\* sets the rate of exactly these intervals.
C24_BeatsAndIntervals ==
    (ret.op = "calculate_bpm" /\ Len(ir_buffer) >= 30) =>
        /\ BeatPairs = {} => bpm = 0
        /\ (BeatPairs # {} /\ 40000 <= BeatRate /\ BeatRate <= 200000) =>
              bpm = BeatRate
        /\ \A i \in BeatSet :
              /\ 1 < i /\ i < Len(ir_buffer) - 4
              /\ Average5(i) # Average5(i - 1) /\ Average5(i) # Average5(i + 1)

\* C24 witness: two beats exactly 0.4 s apart and nothing else, and
\* calculate_bpm returned 0
C24_Witness ==
    /\ ret.op = "calculate_bpm"
    /\ Cardinality(BeatSet) = 2
    /\ \E i, j \in BeatSet : timestamps[j] - timestamps[i] = 40
    /\ BeatPairs = {}
    /\ bpm = 0

\* how far the function has come: the iterations begun, and the statement
\* within the iteration
Progress ==
    20 * iter +
    ( CASE pc \in {"idle", "w_idle"} -> 0
        [] pc \in {"check", "w_check"} -> 1
        [] pc \in {"setup", "w_setup"} -> 2
        [] pc \in {"read", "w_read"} -> 3
        [] pc = "gate" -> 4
        [] pc \in {"add", "w_add"} -> 5
        [] pc \in {"finger", "w_finger"} -> 6
        [] pc \in {"bpm", "w_bpm"} -> 7
        [] pc \in {"spo2", "w_spo2"} -> 8
        [] pc \in {"filter", "w_filter"} -> 9
        [] pc \in {"sleep", "w_sleep"} -> 10
        [] pc \in {"loop", "w_loop"} -> 11
        [] pc \in {"close", "w_close"} -> 12
        [] pc \in {"compute", "w_compute"} -> 13
        [] OTHER -> 14 )

\* the statements that only compute (the estimator calls and the
\* aggregation); they have no condition and can always be executed
Computing == {"bpm", "w_bpm", "spo2", "w_spo2", "compute", "w_compute"}

\* the function can execute its next statement
CanStep == pc \in Computing \/ ENABLED NextBoth

\* C25: every session returns a result, whatever the reads do (every read
\* may fail, presence may never be established): until it has returned it
\* can always take a step, every step brings it forward, and it begins at
\* most one iteration per hundredth of a second of the duration.  A loop
\* iteration, and with it a read or a candidate, begins only while the
\* elapsed time is below the duration, and a session that ran its loop to
\* the end has seen the duration elapse.
C25_SessionTerminates ==
    /\ [](~Returned => CanStep)
    /\ [][Progress' > Progress]_vars
    /\ [](iter <= DURATION)
    /\ [][iter' > iter => now - start_time < DURATION]_vars
    /\ [][(nread' > nread \/ bpm_samples' # bpm_samples
            \/ spo2_samples' # spo2_samples
            \/ stable_readings' # stable_readings)
           => loop_elapsed < DURATION]_vars
    /\ [](pc \in {"done", "w_done"} => now - start_time >= DURATION)

\* C25 witness: read_sensor has returned after a session in which every one
\* of its reads failed
C25_Witness ==
    /\ pc = "done"
    /\ Dead(wave)
    /\ iter > 100
    /\ nread = 0
    /\ now - start_time >= DURATION
    /\ result.status = "ok"

\* C26: in the lifetime of a monitor the buffer never gets shorter and the
\* smoothed values latch: a nonzero smoothed BPM (SpO2) stays nonzero, needs
\* 30 buffered samples, and is what calculate_bpm (calculate_spo2) returns
\* truncated, so after a nonzero return every later return is nonzero,
\* whatever the later samples are.
C26_SmoothedValuesLatch ==
    /\ [][Len(ir_buffer') >= Len(ir_buffer)]_vars
    /\ [][(bpm > 0 => bpm' > 0) /\ (spo2 > 0 => spo2' > 0)]_vars
    /\ []((bpm > 0 \/ spo2 > 0) => Len(ir_buffer) >= 30)
    /\ [](ret.op = "calculate_bpm" => (ret.val > 0 <=> bpm > 0))
    /\ [](ret.op = "calculate_spo2" => (ret.val > 0 <=> spo2 > 0))

\* C26 witness: calculate_bpm returns the latched value on a full buffer of
\* identical samples, which has no peak
C26_Witness ==
    /\ ret.op = "calculate_bpm"
    /\ ret.val > 0
    /\ Len(ir_buffer) = DefaultBufferSize
    /\ \A i \in 1..Len(ir_buffer) : ir_buffer[i] = ir_buffer[1]

\* a returned field is a whole number within the limits lo..hi (in units)
WholeWithin(v, lo, hi) == v % 1000 = 0 /\ lo * 1000 <= v /\ v <= hi * 1000

\* C27: read_sensor returns heart_rate 0 or a whole number in
\* [41, 199] and spo2 0 or a whole number in [81, 99]; a nonzero field lies
\* between the smallest and the largest candidate collected for it; the two
\* fields are decided independently.
C27_ResultWithinCandidates ==
    pc = "done" =>
        /\ result.heart_rate = 0 \/ WholeWithin(result.heart_rate, 41, 199)
        /\ result.spo2 = 0 \/ WholeWithin(result.spo2, 81, 99)
        /\ result.heart_rate # 0 =>
              /\ bpm_samples # << >>
              /\ MinFrom(bpm_samples, 1) <= result.heart_rate
              /\ result.heart_rate <= MaxFrom(bpm_samples, 1)
        /\ result.spo2 # 0 =>
              /\ spo2_samples # << >>
              /\ MinFrom(spo2_samples, 1) <= result.spo2
              /\ result.spo2 <= MaxFrom(spo2_samples, 1)

\* C27, what the code does keep: heart_rate is 0 or a whole number in [41, 199] between
\* the smallest and the largest heart-rate candidate; spo2 is 0 or a whole
\* number in [80, 99], at most the largest SpO2 candidate and more than the
\* smallest one less 1 (the candidates that come from the zero guard of
\* calculate_spo2 are not whole numbers); each field is nonzero exactly if
\* its own list has a candidate.
C27_ResultBounds ==
    pc = "done" =>
        /\ result.heart_rate = 0 \/ WholeWithin(result.heart_rate, 41, 199)
        /\ result.spo2 = 0 \/ WholeWithin(result.spo2, 80, 99)
        /\ result.heart_rate # 0 <=> bpm_samples # << >>
        /\ result.spo2 # 0 <=> spo2_samples # << >>
        /\ bpm_samples # << >> =>
              /\ \A i \in 1..Len(bpm_samples) : bpm_samples[i] % 1000 = 0
              /\ MinFrom(bpm_samples, 1) <= result.heart_rate
              /\ result.heart_rate <= MaxFrom(bpm_samples, 1)
        /\ spo2_samples # << >> =>
              /\ MinFrom(spo2_samples, 1) - 1000 < result.spo2
              /\ result.spo2 <= MaxFrom(spo2_samples, 1)

\* a returned spo2 below every SpO2 candidate, next to a measured heart
\* rate (the case C27 fails on)
C27_Witness ==
    /\ pc = "done"
    /\ result.heart_rate > 0
    /\ result.spo2 > 0
    /\ \A i \in 1..Len(spo2_samples) : result.spo2 < spo2_samples[i]

\* C28: under every interleaving of the camera routes, capture_array() is
\* only called by a thread that holds camera_lock, while picam2 refers to a
\* camera that was started and not closed.
C28_CaptureUnderLock ==
    captured.by # 0 =>
        /\ captured.lock = captured.by
        /\ captured.ref = "Picamera2"
        /\ captured.state = "started"

\* C28 witness: a stream captured a frame and is between two frames while
\* camera_stop waits for, or holds, the lock
C28_Witness ==
    /\ captured.by # 0
    /\ \E t \in CameraThreads : At(t, "g_yield") /\ captured.by = t
    /\ \E t \in CameraThreads : cam_thread[t].h = "camera_stop" /\ ~At(t, "s_flag")

\* no camera route is being served, no stream is running
NoHandler == \A t \in CameraThreads : cam_thread[t] = Idle

\* C29: whenever no handler is mid-execution, is_streaming is true only if
\* picam2 is not None (so /api/health cannot report is_streaming = true with
\* camera_initialized = false).
C29_StreamingImpliesCamera ==
    NoHandler => (is_streaming => picam2 # "None")

\* C30: in calculate_bpm, for every buffer length from 30 up to the
\* capacity, every peak index is an index of timestamps, the peaks are in
\* increasing buffer order, and so every interval between consecutive peak
\* timestamps is >= 0 and no lookup fails.
C30_PeakLookupsInBounds ==
    Len(ir_buffer) >= MinSamples =>
        LET peaks == Peaks(Smoothed(ir_buffer))
        IN  /\ Len(timestamps) = Len(ir_buffer)
            /\ \A i \in 1..Len(peaks) : peaks[i] \in 1..Len(timestamps)
            /\ \A i \in 1..(Len(peaks) - 1) :
                  /\ peaks[i] < peaks[i + 1]
                  /\ timestamps[peaks[i + 1]] - timestamps[peaks[i]] >= 0

\* C30 witness: calculate_bpm has just run on a full buffer with at least
\* three peaks
C30_Witness ==
    /\ ret.op = "calculate_bpm"
    /\ ret.path = "computed"
    /\ Len(ir_buffer) = buffer_size
    /\ Len(Peaks(Smoothed(ir_buffer))) >= 3

====
